---- MODULE Spec2Model ----
(***************************************************************************)
(* EchoGarden: job queue (capture/repo.py, workers/job_worker.py), tool    *)
(* dispatch wrapper (agents/base.py), trace persistence (db/repo.py) and   *)
(* the Active Orchestrator's ingest pipelines (orchestrator/).             *)
(*                                                                         *)
(* Three specifications share the relational tables:                       *)
(*   SpecQueue  enqueue_job / claim_job / complete_job, statement by       *)
(*              statement, under concurrent callers;                       *)
(*   SpecRun    BasePassiveAgent.run, one database commit per step;        *)
(*   Spec       Orchestrator.ingest_blob, calls made in succession, one    *)
(*              step per stretch of code between two suspension points.    *)
(***************************************************************************)
EXTENDS Integers, Sequences, FiniteSets, TLC

VARIABLES
    jobs,         \* table jobs, in insertion (created_ts) order; job_id = index
    worker,       \* per worker_loop: position and the row claim_job selected
    enq,          \* per enqueue_job caller: position and arguments
    tool_call,    \* table tool_call, in insertion (ts) order; call_id = index
    exec_node,    \* table exec_node; exec_node_id = index
    exec_edge,    \* table exec_edge, in insertion order
    exec_trace,   \* table exec_trace, keyed by trace_id
    memory_card,  \* table memory_card, in insertion order
    clock,        \* the value the next _now_iso() returns
    agent,        \* per BasePassiveAgent.run invocation: position and locals
    call,         \* per Orchestrator.ingest_blob invocation: position and locals
    disk,         \* the watched files: what stat and read return, per path
    file_state,   \* table file_state, keyed by path
    source,       \* table source, in insertion order; source_id = index
    blob,         \* table blob, in insertion order; blob_id = index
    scan,         \* the watcher thread: position in _scan_once / _process_file
    chat,         \* the frame of Orchestrator.chat
    conversation_turn,   \* table conversation_turn; turn_id = index
    chat_citation,       \* table chat_citation, in insertion order
    fn,           \* a library function under evaluation: arguments and locals
    graph_edge,   \* table graph_edge: a set of rows, edge_id the primary key
    graph_node    \* table graph_node: a set of rows, node_id the primary key

watchVars == <<disk, file_state, source, blob, scan>>

\* the variables of the subsystems other than queue, wrapper and ingest
chatVars == <<chat, conversation_turn, chat_citation>>
libVars == <<fn, graph_edge, graph_node>>
extVars == <<watchVars, chatVars, libVars>>

vars == <<jobs, worker, enq, tool_call, exec_node, exec_edge, exec_trace,
          memory_card, clock, agent, call, extVars>>

queueVars == <<jobs, worker, enq>>
dbVars    == <<tool_call, exec_node, exec_edge, exec_trace, memory_card, clock>>

NULL == 0

\* SQL NULL in a TEXT column
NullText == "NULL"

\* no library function under evaluation
NoFn == [name |-> "none"]

Min(a, b) == IF a < b THEN a ELSE b

(***************************************************************************)
(* Bounds of the model.                                                    *)
(***************************************************************************)
MaxJobs    == 2     \* rows the jobs table may hold
NumWorkers == 2     \* worker_loop instances polling the same jobs table
NumRunners == 2     \* wrapper invocations followed in SpecRun
MaxCalls     == 2   \* ingest_blob invocations
MaxToolCalls == 6   \* rows the tool_call table may hold in Spec
NumPaths     == 1   \* files under the watch roots
MaxMtime     == 2   \* st_mtime_ns values a file goes through

(***************************************************************************)
(*                      JOB QUEUE  (capture/repo.py)                       *)
(***************************************************************************)
Workers   == 1..NumWorkers
Enqueuers == {"watcher", "browser"}

NoPayload == <<"none", 0>>

\* a worker_loop between two jobs
NoRow == [type |-> "none", payload |-> NoPayload, status |-> "none",
          attempts |-> 0, error_text |-> NullText]
IdleWorker == [pc |-> "idle", job |-> NULL, row |-> NoRow, at |-> 0,
               error |-> NullText, handled |-> FALSE, raised |-> FALSE,
               result |-> "none"]

\* callers of enqueue_job and the job type each one passes
JobTypeOf(e) == IF e = "watcher" THEN "ingest_blob" ELSE "ingest_capture"

\* payloads a caller can pass: the watcher's payload is a function of the
\* file version; the browser payload carries a fresh memory_id
PayloadsOf(e) ==
    IF e = "watcher"
    THEN {<<"file", 1>>}
    ELSE {<<"mem", Len(jobs) + 1>>}

\* rows matched by the SELECT of enqueue_job
ExistingJobs(job_type, payload) ==
    {j \in 1..Len(jobs) :
        /\ jobs[j].type = job_type
        /\ jobs[j].status \in {"queued", "running"}
        /\ jobs[j].payload = payload}

\* enqueue_job, statement 1: SELECT an existing queued/running job
enqueue_job_select(e, payload) ==
    /\ enq[e].pc = "idle"
    /\ LET found == ExistingJobs(JobTypeOf(e), payload) IN
       IF found # {}
       THEN \E j \in found :
                enq' = [enq EXCEPT ![e] = [pc |-> "idle", payload |-> NoPayload,
                                           ret |-> j, inserted |-> FALSE]]
       ELSE /\ Len(jobs) < MaxJobs
            /\ enq' = [enq EXCEPT ![e] = [pc |-> "insert", payload |-> payload,
                                          ret |-> NULL, inserted |-> FALSE]]
    /\ UNCHANGED <<jobs, worker, dbVars, agent, call, extVars>>

\* enqueue_job, statement 2: INSERT the queued row and commit
enqueue_job_insert(e) ==
    /\ enq[e].pc = "insert"
    /\ jobs' = Append(jobs, [type     |-> JobTypeOf(e),
                             payload  |-> enq[e].payload,
                             status   |-> "queued",
                             attempts |-> 0,
                             error_text |-> NullText])
    /\ enq' = [enq EXCEPT ![e] = [pc |-> "idle", payload |-> NoPayload,
                                  ret |-> Len(jobs) + 1, inserted |-> TRUE]]
    /\ UNCHANGED <<worker, dbVars, agent, call, extVars>>

\* WHERE status = 'queued' ORDER BY created_ts ASC LIMIT 1
OldestQueued ==
    LET q == {j \in 1..Len(jobs) : jobs[j].status = "queued"} IN
    IF q = {} THEN NULL ELSE CHOOSE j \in q : \A k \in q : j <= k

\* claim_job, statement 1: SELECT the oldest queued row (None: poll again)
claim_job_select(w) ==
    /\ worker[w].pc = "idle"
    /\ LET row == OldestQueued IN
       /\ row # NULL
       /\ worker' = [worker EXCEPT ![w] = [IdleWorker EXCEPT
                                              !.pc = "update", !.job = row,
                                              !.row = jobs[row]]]
    /\ UNCHANGED <<jobs, enq, dbVars, agent, call, extVars>>

\* claim_job, statement 2: UPDATE ... WHERE job_id = ? and commit
ClaimedRow(r) == [r EXCEPT !.status = "running", !.attempts = @ + 1]

claim_job_update(w) ==
    /\ worker[w].pc = "update"
    /\ jobs' = [jobs EXCEPT ![worker[w].job] = ClaimedRow(@)]
    /\ worker' = [worker EXCEPT ![w].pc = "handling"]
    /\ UNCHANGED <<enq, dbVars, agent, call, extVars>>

\* _JOB_HANDLERS
JobHandlers == {"ingest_blob", "ingest_capture"}

\* str(exc) of what a handler raises: a message, or nothing (an exception
\* made without arguments, such as asyncio.TimeoutError())
ExceptionTexts == {"boom", ""}

\* status of the IngestResult that ingest_blob returns to _handle_ingest_blob
IngestStatuses == {"ok", "error", "idempotent_skip"}

\* ends of await handler(payload): <<"return", result.status>> (the status
\* is logged and nothing is returned), or <<"raise", str(exc)>>
HandlerOutcomes(job_type) ==
    {<<"return", st>> : st \in IF job_type = "ingest_blob" THEN IngestStatuses
                               ELSE {"none"}}
    \cup {<<"raise", text>> : text \in ExceptionTexts}

\* complete_job: status = "error" if error else "done"; error is None
\* (NullText) or a str
CompletedRow(r, error) ==
    [r EXCEPT !.status = IF error # NullText /\ error # "" THEN "error"
                         ELSE "done",
              !.error_text = error]

\* worker_loop from the claim to the complete_job call it is about to make
\* (lines 143-167): at is the line of that call
worker_handle(w, outcome) ==
    /\ worker[w].pc = "handling"
    /\ worker' =
         [worker EXCEPT ![w] =
            IF worker[w].row.type \notin JobHandlers
            THEN [@ EXCEPT !.pc = "complete", !.at = 156,
                           !.error = "Unknown job type"]
            ELSE IF outcome[1] = "return"
            THEN [@ EXCEPT !.pc = "complete", !.at = 163, !.handled = TRUE,
                           !.result = outcome[2], !.error = NullText]
            ELSE [@ EXCEPT !.pc = "complete", !.at = 167, !.handled = TRUE,
                           !.raised = TRUE, !.error = outcome[2]]]
    /\ UNCHANGED <<jobs, enq, dbVars, agent, call, extVars>>

\* await asyncio.to_thread(complete_job, job_id, error): the UPDATE commits,
\* or the call raises (sqlite3.OperationalError: database is locked). Raised
\* at line 163 it is caught at 165 and complete_job is called again with its
\* text; raised at 156 or 167 it is caught at 169 and the loop goes on
worker_complete(w, raised) ==
    /\ worker[w].pc = "complete"
    /\ IF ~raised
       THEN /\ jobs' = [jobs EXCEPT ![worker[w].job] =
                                        CompletedRow(@, worker[w].error)]
            /\ worker' = [worker EXCEPT ![w] = IdleWorker]
       ELSE /\ jobs' = jobs
            /\ worker' = [worker EXCEPT ![w] =
                            IF worker[w].at = 163
                            THEN [@ EXCEPT !.at = 167,
                                           !.error = "database is locked"]
                            ELSE IdleWorker]
    /\ UNCHANGED <<enq, dbVars, agent, call, extVars>>

\* lifespan shutdown: worker_task.cancel() while the loop awaits the handler;
\* CancelledError is no Exception, so neither except clause catches it. The
\* next start of the API runs a new worker_loop
worker_restart(w) ==
    /\ worker[w].pc = "handling"
    /\ worker' = [worker EXCEPT ![w] = IdleWorker]
    /\ UNCHANGED <<jobs, enq, dbVars, agent, call, extVars>>

QueueNext ==
    \/ \E e \in Enqueuers : \E p \in PayloadsOf(e) : enqueue_job_select(e, p)
    \/ \E e \in Enqueuers : enqueue_job_insert(e)
    \/ \E w \in Workers : claim_job_select(w)
    \/ \E w \in Workers : claim_job_update(w)
    \/ \E w \in Workers :
       \E outcome \in HandlerOutcomes(worker[w].row.type) :
           worker_handle(w, outcome)
    \/ \E w \in Workers : \E raised \in BOOLEAN : worker_complete(w, raised)
    \/ \E w \in Workers : worker_restart(w)

(***************************************************************************)
(*                 DISPATCH WRAPPER  (agents/base.py)                      *)
(***************************************************************************)
ToolStatus == {"ok", "error", "timeout"}

\* ToolConstraints defaults
DefaultTimeoutMs      == 8000
DefaultMaxOutputBytes == 200000
PreviewChars          == 500

\* what awaiting execute under wait_for can end in
ExecuteOutcomes == {"return", "raise", "timeout", "unserializable"}

\* serialized sizes of the outputs execute returns
OutputSizes == {2, DefaultMaxOutputBytes - 1, DefaultMaxOutputBytes,
                DefaultMaxOutputBytes + 1}

\* ends of one execute in SpecRun: <<outcome, serialized bytes>>
RunExecutions ==
    {<<"return", n>> : n \in OutputSizes}
    \cup {<<"raise", 0>>, <<"timeout", 0>>, <<"unserializable", 2>>}

\* the cap test with the boundary on the wrong side
ExceedsCapOffByOne(nbytes, max_output_bytes) == nbytes >= max_output_bytes

\* the cap test of run
ExceedsCap(nbytes, max_output_bytes) == nbytes > max_output_bytes

\* lines 63-91 of run: status, outputs and error after the try block.
\* outputs is [kind, bytes]: "full" is what execute returned, "preview" the
\* {"_truncated", "_preview"} replacement, "empty" the initial {}.
RunResult(outcome, nbytes, max_output_bytes) ==
    CASE outcome = "return" /\ ~ExceedsCap(nbytes, max_output_bytes) ->
            [status |-> "ok", error |-> "none",
             outputs |-> [kind |-> "full", bytes |-> nbytes]]
      [] outcome = "return" /\ ExceedsCap(nbytes, max_output_bytes) ->
            [status |-> "error", error |-> "max_output_bytes_exceeded",
             outputs |-> [kind |-> "preview",
                          bytes |-> Min(nbytes, PreviewChars)]]
      [] outcome = "timeout" ->
            [status |-> "timeout", error |-> "timeout",
             outputs |-> [kind |-> "empty", bytes |-> 2]]
      [] outcome = "unserializable" ->   \* json.dumps(outputs) raises in the try
            [status |-> "error", error |-> "TypeError",
             outputs |-> [kind |-> "unserializable", bytes |-> nbytes]]
      [] OTHER ->
            [status |-> "error", error |-> "Exception",
             outputs |-> [kind |-> "empty", bytes |-> 2]]

\* insert_tool_call: inputs carry _meta.trace_id
InsertToolCall(tc, tool_name, trace_id) ==
    Append(tc, [tool_name |-> tool_name, trace_id |-> trace_id,
                status |-> "running", outputs |-> "null"])

\* insert_exec_node: trace_id column left NULL
InsertExecNode(en, call_id, timeout_ms) ==
    Append(en, [call_id |-> call_id, state |-> "running",
                trace_id |-> NullText, timeout_ms |-> timeout_ms])

\* update_tool_call(call_id, outputs if ok else (outputs or None), status)
UpdateToolCall(tc, call_id, res) ==
    [tc EXCEPT ![call_id].status = res.status,
               ![call_id].outputs =
                   IF res.status # "ok" /\ res.outputs.kind = "empty"
                   THEN "null" ELSE res.outputs.kind]

\* a final update that never reaches the exec_node row
UpdateExecNodeSkipped(en, exec_node_id, status) == en

\* update_exec_node(exec_node_id, status)
UpdateExecNode(en, exec_node_id, status) ==
    [en EXCEPT ![exec_node_id].state = status]

Runners == 1..NumRunners
RunTools == {"doc_parse"}
RunTraces == {"t1"}

IdleAgent == [pc |-> "idle", call_id |-> NULL, exec_node_id |-> NULL,
              outcome |-> "none", nbytes |-> 0, result |-> NULL]

\* run, line 55
run_insert_tool_call(r, tool_name, trace_id) ==
    /\ agent[r].pc = "idle"
    /\ tool_call' = InsertToolCall(tool_call, tool_name, trace_id)
    /\ agent' = [agent EXCEPT ![r].pc = "insert_node",
                              ![r].call_id = Len(tool_call) + 1]
    /\ UNCHANGED <<exec_node, exec_edge, exec_trace, memory_card, clock,
                   queueVars, call, extVars>>

\* run, lines 56-61
run_insert_exec_node(r) ==
    /\ agent[r].pc = "insert_node"
    /\ exec_node' = InsertExecNode(exec_node, agent[r].call_id, DefaultTimeoutMs)
    /\ agent' = [agent EXCEPT ![r].pc = "execute",
                              ![r].exec_node_id = Len(exec_node) + 1]
    /\ UNCHANGED <<tool_call, exec_edge, exec_trace, memory_card, clock,
                   queueVars, call, extVars>>

\* run, lines 63-91: await execute under wait_for, cap check, except clauses
run_execute(r, outcome, nbytes) ==
    /\ agent[r].pc = "execute"
    /\ agent' = [agent EXCEPT
                   ![r].pc = "update_call",
                   ![r].outcome = outcome,
                   ![r].nbytes = nbytes,
                   ![r].result = RunResult(outcome, nbytes, DefaultMaxOutputBytes)]
    /\ UNCHANGED <<dbVars, queueVars, call, extVars>>

\* run, line 96; update_tool_call serializes the outputs it is given, so
\* outputs json.dumps rejected in the try block make it raise out of run
run_update_tool_call(r) ==
    /\ agent[r].pc = "update_call"
    /\ IF agent[r].result.outputs.kind = "unserializable"
       THEN /\ agent' = [agent EXCEPT ![r].pc = "raised"]
            /\ UNCHANGED tool_call
       ELSE /\ tool_call' = UpdateToolCall(tool_call, agent[r].call_id,
                                           agent[r].result)
            /\ agent' = [agent EXCEPT ![r].pc = "update_node"]
    /\ UNCHANGED <<exec_node, exec_edge, exec_trace, memory_card, clock,
                   queueVars, call, extVars>>

\* run, lines 97-109
run_update_exec_node(r) ==
    /\ agent[r].pc = "update_node"
    /\ exec_node' = UpdateExecNode(exec_node, agent[r].exec_node_id,
                                   agent[r].result.status)
    /\ agent' = [agent EXCEPT ![r].pc = "returned"]
    /\ UNCHANGED <<tool_call, exec_edge, exec_trace, memory_card, clock,
                   queueVars, call, extVars>>

RunNext ==
    \/ \E r \in Runners : \E t \in RunTools : \E tr \in RunTraces :
           run_insert_tool_call(r, t, tr)
    \/ \E r \in Runners : run_insert_exec_node(r)
    \/ \E r \in Runners : \E ex \in RunExecutions :
           run_execute(r, ex[1], ex[2])
    \/ \E r \in Runners : run_update_tool_call(r)
    \/ \E r \in Runners : run_update_exec_node(r)

(***************************************************************************)
(*            TRACE AND CARD PERSISTENCE  (db/repo.py)                     *)
(***************************************************************************)
TraceOrder == <<"t1", "t2">>
TraceIds == {TraceOrder[k] : k \in 1..Len(TraceOrder)}
BlobOrder == <<"b1", "b2">>
BlobIds  == {BlobOrder[k] : k \in 1..Len(BlobOrder)}

NoTrace == [status |-> "none", finished_ts |-> NULL]

\* the relational tables as one value, so that a handler's writes compose
DB == [tool_call |-> tool_call, exec_node |-> exec_node,
       exec_edge |-> exec_edge, exec_trace |-> exec_trace,
       memory_card |-> memory_card, clock |-> clock]

SetDB(db) ==
    /\ tool_call'   = db.tool_call
    /\ exec_node'   = db.exec_node
    /\ exec_edge'   = db.exec_edge
    /\ exec_trace'  = db.exec_trace
    /\ memory_card' = db.memory_card
    /\ clock'       = db.clock

\* INSERT OR IGNORE INTO exec_trace (..., status 'running', ...)
insert_exec_trace(db, trace_id) ==
    [db EXCEPT !.exec_trace =
                   IF @[trace_id].status = "none"
                   THEN [@ EXCEPT ![trace_id] =
                            [status |-> "running", finished_ts |-> NULL]]
                   ELSE @,
               !.clock = @ + 1]

\* the row finish_exec_trace leaves: finished_ts and status overwritten
FinishedTrace(old, status, now) ==
    [status |-> status, finished_ts |-> now]

\* UPDATE exec_trace SET finished_ts = ?, status = ? WHERE trace_id = ?
finish_exec_trace(db, trace_id, status) ==
    [db EXCEPT !.exec_trace =
                   IF @[trace_id].status = "none" THEN @
                   ELSE [@ EXCEPT ![trace_id] =
                            FinishedTrace(@, status, db.clock)],
               !.clock = @ + 1]

\* insert_memory_card; the metadata map carries blob_id, trace_id, pipeline
insert_memory_card(db, memory_id, card_type, summary, blob_id, trace_id, pipeline) ==
    [db EXCEPT !.memory_card =
        Append(@, [memory_id |-> memory_id, card_type |-> card_type,
                   summary |-> summary, blob_id |-> blob_id,
                   trace_id |-> trace_id, pipeline |-> pipeline])]

\* rows whose metadata matches '%"blob_id": "<blob_id>"%'
CardsOfBlob(cards, blob_id) ==
    {i \in 1..Len(cards) : cards[i].blob_id = blob_id}

\* a LIKE pattern written without the space json.dumps puts after the colon
\* matches no row
find_memory_card_by_blob_compact(cards, blob_id) == NULL

\* find_memory_card_by_blob: memory_id of a matching row (LIMIT 1), or None
find_memory_card_by_blob(cards, blob_id) ==
    LET m == CardsOfBlob(cards, blob_id) IN
    IF m = {} THEN NULL
    ELSE cards[CHOOSE i \in m : \A k \in m : i <= k].memory_id

\* get_latest_exec_node_for_call: JOIN on call_id, tool_name and trace_id in
\* the inputs, ORDER BY tc.ts DESC LIMIT 1
get_latest_exec_node_for_call(db, tool_name, trace_id) ==
    LET m == {n \in 1..Len(db.exec_node) :
                 /\ db.tool_call[db.exec_node[n].call_id].tool_name = tool_name
                 /\ db.tool_call[db.exec_node[n].call_id].trace_id = trace_id}
    IN IF m = {} THEN NULL
       ELSE CHOOSE n \in m :
                \A k \in m : db.exec_node[k].call_id <= db.exec_node[n].call_id

\* the row insert_exec_edge writes: the trace_id column is not in the INSERT
NewExecEdge(from_id, to_id) ==
    [from_exec_node_id |-> from_id, to_exec_node_id |-> to_id,
     condition |-> "sequential", trace_id |-> NullText]

insert_exec_edge(db, from_id, to_id) ==
    [db EXCEPT !.exec_edge = Append(@, NewExecEdge(from_id, to_id))]

\* update_exec_node_trace
update_exec_node_trace(db, exec_node_id, trace_id) ==
    [db EXCEPT !.exec_node[exec_node_id].trace_id = trace_id]

\* get_exec_nodes_for_trace: WHERE en.trace_id = ?
get_exec_nodes_for_trace(trace_id) ==
    {n \in 1..Len(exec_node) : exec_node[n].trace_id = trace_id}

\* get_exec_edges_for_trace: SELECT * FROM exec_edge WHERE trace_id = ?
get_exec_edges_for_trace(trace_id) ==
    {e \in 1..Len(exec_edge) : exec_edge[e].trace_id = trace_id}

(***************************************************************************)
(*          ROUTING  (orchestrator/router.py, capture/config.py)           *)
(***************************************************************************)
\* the files handed to ingest_blob: mime as <<type, subtype>>, and extension
Files == {[mime |-> <<"text", "plain">>, ext |-> ".txt", readable |-> TRUE],
          [mime |-> <<"text", "plain">>, ext |-> ".txt", readable |-> FALSE],
          [mime |-> <<"image", "png">>, ext |-> ".png", readable |-> TRUE],
          [mime |-> <<"audio", "mpeg">>, ext |-> ".mp3", readable |-> TRUE],
          [mime |-> <<"application", "octet-stream">>, ext |-> ".jpg",
           readable |-> TRUE],
          [mime |-> <<"application", "octet-stream">>, ext |-> ".bin",
           readable |-> TRUE]}

ImageExtensions == {".png", ".jpg", ".jpeg", ".gif", ".bmp", ".tiff", ".webp", ".svg"}
AudioExtensions == {".mp3", ".wav", ".flac", ".ogg", ".m4a", ".aac", ".wma", ".opus"}

choose_pipeline(mime, ext) ==
    IF mime[1] = "image" \/ ext \in ImageExtensions THEN "ocr"
    ELSE IF mime[1] = "audio" \/ ext \in AudioExtensions THEN "asr"
    ELSE "doc_parse"

is_image_pipeline(pipeline) == pipeline = "ocr"

build_ingest_steps(pipeline) ==
    IF pipeline = "doc_parse"
    THEN << [tool_name |-> "doc_parse",     timeout_ms |-> 15000],
            [tool_name |-> "text_embed",    timeout_ms |-> 10000],
            [tool_name |-> "graph_builder", timeout_ms |-> 10000] >>
    ELSE << [tool_name |-> "asr",           timeout_ms |-> 60000],
            [tool_name |-> "text_embed",    timeout_ms |-> 10000],
            [tool_name |-> "graph_builder", timeout_ms |-> 10000] >>

\* EG_MAX_FILE_MB = 20, EG_MAX_FILE_BYTES = int(EG_MAX_FILE_MB * 1024 * 1024)
EG_MAX_FILE_BYTES == 20 * 1024 * 1024

FileSizes == {EG_MAX_FILE_BYTES, EG_MAX_FILE_BYTES + 1}

(***************************************************************************)
(*        ACTIVE ORCHESTRATOR: ingest  (orchestrator/orchestrator.py)      *)
(***************************************************************************)
Calls == 1..MaxCalls

NoStep   == [tool_name |-> "none", exec_node_id |-> NULL, status |-> "none",
             data |-> "-"]
NoHandle == [tool_name |-> "none", call_id |-> NULL, exec_node_id |-> NULL,
             prev |-> NULL]
NoRet    == [status |-> "none", pipeline |-> "none", memory_id |-> NULL,
             steps |-> <<>>]

IdleCall ==
    [pc |-> "idle", blob_id |-> "none", trace_id |-> "none",
     pipeline |-> "none", size_bytes |-> 0, memory_id |-> NULL,
     step |-> 0, cur |-> NoHandle, ocr_run |-> NoHandle, vis_run |-> NoHandle,
     step_results |-> <<>>, sr_ocr |-> NoStep, sr_vision |-> NoStep,
     summary |-> "", entities |-> FALSE,
     base_text_source |-> "", caption_model |-> "", ret |-> NoRet]

\* the content of a tool's outputs, as far as the orchestrator branches on it
OutputData(tool_name) ==
    CASE tool_name = "ocr"           -> {"meaningful", "low", "poor"}
      [] tool_name = "image_caption" -> {"blip", "clip_subjects", "clip", "empty"}
      [] tool_name = "extractor"     -> {"entities", "none"}
      [] OTHER                       -> {"-"}

\* ends of one execute: <<outcome, serialized bytes, content>>
Executions(tool_name) ==
    {<<"return", DefaultMaxOutputBytes, d>> : d \in OutputData(tool_name)}
    \cup {<<"raise", 0, "-">>, <<"timeout", 0, "-">>}

St(db, c) == [db |-> db, c |-> c]

Apply(i, st) ==
    /\ SetDB(st.db)
    /\ call' = [call EXCEPT ![i] = st.c]
    /\ UNCHANGED <<queueVars, agent, extVars>>

\* the steps field of IngestResult: tool and status of each StepResult
StepsOf(step_results) ==
    [k \in 1..Len(step_results) |->
        [tool_name |-> step_results[k].tool_name,
         status |-> step_results[k].status]]

\* ingest_blob returns: the frame's locals go, the IngestResult stays
Returned(c, status, pipeline, memory_id) ==
    [IdleCall EXCEPT
        !.pc = "done", !.blob_id = c.blob_id, !.trace_id = c.trace_id,
        !.pipeline = c.pipeline,
        !.ret = [status |-> status, pipeline |-> pipeline,
                 memory_id |-> memory_id, steps |-> StepsOf(c.step_results)]]

\* _dispatch_tool down to the await in run: every tool the pipelines name is
\* registered at import (main.py), so registry.get never returns None
RunHandle(db, tool_name, prev) ==
    [tool_name |-> tool_name, call_id |-> Len(db.tool_call) + 1,
     exec_node_id |-> Len(db.exec_node) + 1, prev |-> prev]

dispatch_tool_begin(db, trace_id, tool_name, timeout_ms) ==
    [db EXCEPT !.tool_call = InsertToolCall(@, tool_name, trace_id),
               !.exec_node = InsertExecNode(@, Len(db.tool_call) + 1, timeout_ms)]

\* the rest of run and of _dispatch_tool once execute has ended
dispatch_tool_end(db, trace_id, h, res, data) ==
    LET db1 == [db EXCEPT !.tool_call = UpdateToolCall(@, h.call_id, res),
                          !.exec_node = UpdateExecNode(@, h.exec_node_id, res.status)]
        exec_node_id == get_latest_exec_node_for_call(db1, h.tool_name, trace_id)
        db2 == IF h.prev # NULL /\ exec_node_id # NULL
               THEN insert_exec_edge(db1, h.prev, exec_node_id) ELSE db1
        db3 == IF exec_node_id # NULL
               THEN update_exec_node_trace(db2, exec_node_id, trace_id) ELSE db2
    IN [db |-> db3,
        sr |-> [tool_name |-> h.tool_name, exec_node_id |-> exec_node_id,
                status |-> res.status,
                data |-> IF res.status = "ok" THEN data ELSE "-"]]

Begin(db, c, tool_name, timeout_ms, prev) ==
    St(dispatch_tool_begin(db, c.trace_id, tool_name, timeout_ms),
       [c EXCEPT !.pc = "exec", !.cur = RunHandle(db, tool_name, prev)])

\* text_embed exempted from the fatal check as well
NonFatalToolsWithEmbed == {"summarizer", "extractor", "text_embed"}

\* "Non-fatal for summarizer/extractor": the tools whose failure the
\* sequential loop survives
NonFatalTools == {"summarizer", "extractor"}

IsFatalFailure(tool_name, status) ==
    status # "ok" /\ tool_name \notin NonFatalTools

\* _ingest_sequential down to the first await (lines 148-226)
ingest_sequential_begin(db, c, readable) ==
    LET steps == build_ingest_steps(c.pipeline) IN
    IF c.pipeline = "doc_parse" /\ ~readable
    THEN \* _read_text_content raised OSError
         St(finish_exec_trace(db, c.trace_id, "error"),
            Returned([c EXCEPT !.step_results =
                         << [tool_name |-> "read_file", exec_node_id |-> NULL,
                             status |-> "error", data |-> "-"] >>],
                     "error", c.pipeline, NULL))
    ELSE Begin(db, [c EXCEPT !.step = 1], steps[1].tool_name,
               steps[1].timeout_ms, NULL)

\* _ingest_sequential from the return of one dispatch to the next await or
\* to the return (lines 227-317)
ingest_sequential_step(db0, c, ex) ==
    LET steps    == build_ingest_steps(c.pipeline)
        step_def == steps[c.step]
        d  == dispatch_tool_end(db0, c.trace_id, c.cur,
                  RunResult(ex[1], ex[2], DefaultMaxOutputBytes), ex[3])
        sr == d.sr
        c1 == [c EXCEPT
                 !.step_results = Append(@, sr),
                 !.cur = NoHandle,
                 !.summary  = IF step_def.tool_name = "summarizer" /\ sr.status = "ok"
                              THEN "llm" ELSE @,
                 !.entities = IF step_def.tool_name = "extractor" /\ sr.status = "ok"
                              THEN sr.data = "entities" ELSE @]
    IN IF IsFatalFailure(step_def.tool_name, sr.status)
       THEN St(finish_exec_trace(d.db, c.trace_id, "error"),
               Returned(c1, "error", c.pipeline, NULL))
       ELSE IF c.step < Len(steps)
       THEN Begin(d.db, [c1 EXCEPT !.step = @ + 1],
                  steps[c.step + 1].tool_name, steps[c.step + 1].timeout_ms,
                  sr.exec_node_id)
       ELSE St(finish_exec_trace(
                   insert_memory_card(d.db, c.memory_id, "file_capture",
                       IF c1.summary = "" THEN "fallback" ELSE c1.summary,
                       c.blob_id, c.trace_id, c.pipeline),
                   c.trace_id, "done"),
               Returned(c1, "ok", c.pipeline, c.memory_id))

\* oversized = size_bytes > EG_MAX_FILE_BYTES
Oversized(size_bytes) == size_bytes > EG_MAX_FILE_BYTES

\* base_text as it stands beside base_text_source (lines 437-488): the two
\* are assigned together, and both stay "" when the caption comes back empty
BaseText(base_text_source) ==
    CASE base_text_source = "ocr"      -> "ocr_text"
      [] base_text_source = "caption"  -> "caption_text"
      [] base_text_source = "filename" -> "Image: <basename>"
      [] OTHER                         -> ""

\* the card of a processed image (lines 642-675): metadata_json carries
\* base_text_source, caption_text or None (caption_text is set only where the
\* caption becomes base_text, lines 477-481), caption_model and entities;
\* content_text is base_text, or None when that is blank
insert_image_card(db, c, summary) ==
    [db EXCEPT !.memory_card =
        Append(@, [memory_id |-> c.memory_id, card_type |-> "file_capture",
                   summary |-> summary, blob_id |-> c.blob_id,
                   trace_id |-> c.trace_id, pipeline |-> "ocr",
                   base_text_source |-> c.base_text_source,
                   caption_text |-> IF c.base_text_source = "caption"
                                    THEN "caption_text" ELSE NullText,
                   caption_model |-> c.caption_model,
                   entities |-> c.entities,
                   content_text |-> IF BaseText(c.base_text_source) = ""
                                    THEN NullText
                                    ELSE BaseText(c.base_text_source)])]

\* an overall status that wants both branches to have succeeded
all_ok(sr_ocr, sr_vision) == sr_ocr.status = "ok" /\ sr_vision.status = "ok"

\* line 639: any_ok = sr_ocr.status == "ok" or sr_vision.status == "ok"
any_ok(sr_ocr, sr_vision) == sr_ocr.status = "ok" \/ sr_vision.status = "ok"

\* _ingest_image, lines 623-707: fallback summary, card, trace, result
ingest_image_finish(db, c) ==
    LET summary == IF c.summary # "" THEN c.summary
                   ELSE IF c.base_text_source # "" THEN "fallback"
                   ELSE "filename"
        overall == IF any_ok(c.sr_ocr, c.sr_vision) THEN "ok" ELSE "error"
    IN St(finish_exec_trace(insert_image_card(db, c, summary),
              c.trace_id, IF overall = "error" THEN "error" ELSE "done"),
          Returned(c, overall, "ocr", c.memory_id))

\* a graph_builder dispatch that does not look at the entity list
ingest_image_graph_always(db, c) ==
    Begin(db, c, "graph_builder", 10000,
          c.step_results[Len(c.step_results)].exec_node_id)

\* lines 595-621: graph_builder only if entities were extracted
ingest_image_graph(db, c) ==
    IF c.entities
    THEN Begin(db, c, "graph_builder", 10000,
               c.step_results[Len(c.step_results)].exec_node_id)
    ELSE ingest_image_finish(db, c)

\* lines 498-593: which tools run on base_text
ingest_image_text(db, c) ==
    LET is_ocr  == c.base_text_source = "ocr"
        is_blip == c.base_text_source = "caption" /\ c.caption_model = "blip"
        last    == c.step_results[Len(c.step_results)]
    IN IF c.base_text_source = ""          \* base_text.strip() is empty
       THEN ingest_image_graph(db, c)
       ELSE IF is_ocr
       THEN Begin(db, c, "summarizer", 180000, c.sr_ocr.exec_node_id)
       ELSE IF is_blip
       THEN Begin(db, c, "extractor", 180000, c.sr_ocr.exec_node_id)
       ELSE Begin(db,
                  [c EXCEPT !.summary = "base_text",
                            !.entities = (last.tool_name = "image_caption"
                                          /\ last.status = "ok"
                                          /\ last.data = "clip_subjects")],
                  "text_embed", 120000, c.sr_ocr.exec_node_id)

\* lines 410-473: after the gather, OCR text or caption fallback
ingest_image_decide(db, c) ==
    LET ocr_ok         == c.sr_ocr.status = "ok"
        ocr_meaningful == ocr_ok /\ c.sr_ocr.data = "meaningful"
        ocr_usable     == ocr_ok /\ c.sr_ocr.data = "low"
        c1 == [c EXCEPT !.step_results = <<c.sr_ocr, c.sr_vision>>]
    IN IF ocr_meaningful \/ ocr_usable
       THEN ingest_image_text(db, [c1 EXCEPT !.base_text_source = "ocr"])
       ELSE Begin(db, c1, "image_caption", 60000, c.sr_ocr.exec_node_id)

\* _ingest_image from the return of a dispatch after the gather to the next
\* await or to the return
ingest_image_step(db0, c, ex) ==
    LET tool == c.cur.tool_name
        d  == dispatch_tool_end(db0, c.trace_id, c.cur,
                  RunResult(ex[1], ex[2], DefaultMaxOutputBytes), ex[3])
        sr == d.sr
        ok == sr.status = "ok"
        c1 == [c EXCEPT !.step_results = Append(@, sr), !.cur = NoHandle]
        is_blip == c.base_text_source = "caption" /\ c.caption_model = "blip"
    IN CASE tool = "image_caption" ->
              ingest_image_text(d.db,
                  [c1 EXCEPT !.caption_model =
                                 IF ok /\ sr.data = "blip" THEN "blip"
                                 ELSE IF ok THEN "clip" ELSE "",
                             !.base_text_source =
                                 IF ok /\ sr.data # "empty" THEN "caption"
                                 ELSE IF ok THEN ""
                                 ELSE "filename"])
         [] tool = "summarizer" ->
              Begin(d.db, [c1 EXCEPT !.summary = IF ok THEN "llm" ELSE @],
                    "extractor", 180000, c.sr_ocr.exec_node_id)
         [] tool = "extractor" ->
              Begin(d.db,
                    [c1 EXCEPT !.entities = ok /\ sr.data = "entities",
                               !.summary = IF is_blip THEN "base_text" ELSE @],
                    "text_embed", 120000, c.sr_ocr.exec_node_id)
         [] tool = "text_embed" -> ingest_image_graph(d.db, c1)
         [] OTHER -> ingest_image_finish(d.db, c1)

\* _ingest_image down to the gather (lines 330-409)
ingest_image_begin(db, c) ==
    IF Oversized(c.size_bytes)
    THEN St(finish_exec_trace(
                insert_memory_card(db, c.memory_id, "file_capture_placeholder",
                                   "oversized_skipped", c.blob_id, c.trace_id,
                                   "ocr"),
                c.trace_id, "done"),
            Returned(c, "ok", "ocr", c.memory_id))
    ELSE St(db, [c EXCEPT !.pc = "gather"])

\* most rows one ingest of the pipeline inserts into tool_call
MaxPipelineTools(pipeline) == IF pipeline = "ocr" THEN 6 ELSE 3

\* Orchestrator.ingest_blob, down to the first await
ingest_blob_enter(i, blob_id, mime, ext, size_bytes, trace_id, readable) ==
    /\ call[i].pc = "idle"
    /\ LET existing == find_memory_card_by_blob(memory_card, blob_id)
           pipeline == choose_pipeline(mime, ext)
           c0 == [call[i] EXCEPT !.blob_id = blob_id, !.trace_id = trace_id,
                                 !.size_bytes = size_bytes]
           c1 == [c0 EXCEPT !.pipeline = pipeline, !.memory_id = i]
       IN IF existing # NULL
          THEN Apply(i, St(DB, Returned(c0, "idempotent_skip", "skip", existing)))
          ELSE /\ Len(tool_call) + MaxPipelineTools(pipeline) <= MaxToolCalls
               /\ Apply(i, IF is_image_pipeline(pipeline)
                           THEN ingest_image_begin(insert_exec_trace(DB, trace_id), c1)
                           ELSE ingest_sequential_begin(
                                    insert_exec_trace(DB, trace_id), c1, readable))

\* ingest_blob called once the calls before it have returned
ingest_blob(i, blob_id, mime, ext, size_bytes, trace_id, readable) ==
    /\ \A k \in Calls : k < i => call[k].pc = "done"
    /\ ingest_blob_enter(i, blob_id, mime, ext, size_bytes, trace_id, readable)

\* the two gathered tasks start: _run_ocr, then _run_vision_embed, each down
\* to its await
gather_begin(i) ==
    /\ call[i].pc = "gather"
    /\ LET c   == call[i]
           db1 == dispatch_tool_begin(DB, c.trace_id, "ocr", 30000)
           db2 == dispatch_tool_begin(db1, c.trace_id, "vision_embed", 300000)
       IN Apply(i, St(db2, [c EXCEPT !.pc = "gathering",
                                     !.ocr_run = RunHandle(DB, "ocr", NULL),
                                     !.vis_run = RunHandle(db1, "vision_embed", NULL)]))

\* a gather that hands back as soon as one of the two tasks has finished
gather_first_completed(sr_ocr, sr_vision) ==
    sr_ocr # NoStep \/ sr_vision # NoStep

\* await asyncio.gather(_run_ocr(), _run_vision_embed()): resumes when both
\* tasks have returned their StepResult
gather_completed(sr_ocr, sr_vision) ==
    sr_ocr # NoStep /\ sr_vision # NoStep

\* the OCR dispatch returns; the gather resumes the pipeline once both have
ocr_done(i, ex) ==
    /\ call[i].pc = "gathering"
    /\ call[i].sr_ocr = NoStep
    /\ LET c == call[i]
           d == dispatch_tool_end(DB, c.trace_id, c.ocr_run,
                    RunResult(ex[1], ex[2], DefaultMaxOutputBytes), ex[3])
           c1 == [c EXCEPT !.sr_ocr = d.sr]
       IN Apply(i, IF gather_completed(c1.sr_ocr, c1.sr_vision)
                   THEN ingest_image_decide(d.db, c1)
                   ELSE St(d.db, c1))

\* the vision_embed dispatch returns
vision_embed_done(i, ex) ==
    /\ call[i].pc = "gathering"
    /\ call[i].sr_vision = NoStep
    /\ LET c == call[i]
           d == dispatch_tool_end(DB, c.trace_id, c.vis_run,
                    RunResult(ex[1], ex[2], DefaultMaxOutputBytes), ex[3])
           c1 == [c EXCEPT !.sr_vision = d.sr]
       IN Apply(i, IF gather_completed(c1.sr_ocr, c1.sr_vision)
                   THEN ingest_image_decide(d.db, c1)
                   ELSE St(d.db, c1))

\* a dispatch of the sequential pipeline returns
sequential_tool_done(i, ex) ==
    /\ call[i].pc = "exec"
    /\ ~is_image_pipeline(call[i].pipeline)
    /\ Apply(i, ingest_sequential_step(DB, call[i], ex))

\* a dispatch of the image pipeline after the gather returns
image_tool_done(i, ex) ==
    /\ call[i].pc = "exec"
    /\ is_image_pipeline(call[i].pipeline)
    /\ Apply(i, ingest_image_step(DB, call[i], ex))

(***************************************************************************)
(*                 FILE WATCHER  (capture/watcher.py)                      *)
(***************************************************************************)
Paths == 1..NumPaths

\* what a file can hold: size in bytes and the sha256 of its content
DiskContents == {[size_bytes |-> 10, sha256 |-> "h1"],
                 [size_bytes |-> 11, sha256 |-> "h2"]}

\* get_file_state returns None: no row for the path
NoFileState == [mtime_ns |-> 0, size_bytes |-> 0, sha256 |-> "none"]

IdleScan == [pc |-> "idle", path |-> 0, st |-> NoFileState, sha |-> "none",
             source_id |-> NULL, blob_id |-> NULL, outcome |-> "none"]

\* detect_mime: mimetypes.guess_type on the path alone
detect_mime(path) == "text/plain"

\* the unchanged test with size_bytes compared against st_mtime_ns
UnchangedFieldMixup(existing, st) ==
    /\ existing # NoFileState
    /\ existing.mtime_ns = st.mtime_ns
    /\ existing.size_bytes = st.mtime_ns

\* existing and existing["mtime_ns"] == mtime_ns and
\* existing["size_bytes"] == size_bytes
Unchanged(existing, st) ==
    /\ existing # NoFileState
    /\ existing.mtime_ns = st.mtime_ns
    /\ existing.size_bytes = st.size_bytes

\* a file is modified on disk between scans
touch_file(p, content) ==
    /\ disk[p].mtime_ns < MaxMtime
    /\ disk' = [disk EXCEPT ![p] = [mtime_ns |-> @.mtime_ns + 1,
                                    size_bytes |-> content.size_bytes,
                                    sha256 |-> content.sha256]]
    /\ UNCHANGED <<file_state, source, blob, scan, queueVars, dbVars, agent,
                   call, chatVars, libVars>>

\* _scan_once visits a file: stat from the walk, _process_file step 1
watcher_visit(p) ==
    /\ scan.pc = "idle"
    /\ LET st == [mtime_ns |-> disk[p].mtime_ns,
                  size_bytes |-> disk[p].size_bytes, sha256 |-> "none"]
       IN scan' = IF Unchanged(file_state[p], st)
                  THEN [IdleScan EXCEPT !.path = p, !.outcome = "unchanged"]
                  ELSE [IdleScan EXCEPT !.pc = "hash", !.path = p, !.st = st]
    /\ UNCHANGED <<disk, file_state, source, blob, queueVars, dbVars, agent,
                   call, chatVars, libVars>>

\* an exception leaves _process_file: _scan_once logs it and goes on
ScanFailed == [IdleScan EXCEPT !.path = scan.path, !.outcome = "error"]

\* step 2: sha256_file reads the file as it is now
watcher_hash(raised) ==
    /\ scan.pc = "hash"
    /\ scan' = IF raised THEN ScanFailed
               ELSE [scan EXCEPT !.pc = "state",
                                 !.sha = disk[scan.path].sha256]
    /\ UNCHANGED <<disk, file_state, source, blob, queueVars, dbVars, agent,
                   call, chatVars, libVars>>

\* step 3: upsert_file_state
watcher_upsert_file_state(raised) ==
    /\ scan.pc = "state"
    /\ IF raised
       THEN scan' = ScanFailed /\ UNCHANGED file_state
       ELSE /\ file_state' = [file_state EXCEPT ![scan.path] =
                                 [mtime_ns |-> scan.st.mtime_ns,
                                  size_bytes |-> scan.st.size_bytes,
                                  sha256 |-> scan.sha]]
            /\ scan' = [scan EXCEPT !.pc = "source"]
    /\ UNCHANGED <<disk, source, blob, queueVars, dbVars, agent, call, chatVars, libVars>>

\* the source_id upsert_source returns for a uri
SourceOf(uri) ==
    LET m == {k \in 1..Len(source) : source[k].uri = uri} IN
    IF m = {} THEN Len(source) + 1 ELSE CHOOSE k \in m : TRUE

\* steps 4 and 5: upsert_source, detect_mime
watcher_upsert_source(raised) ==
    /\ scan.pc = "source"
    /\ IF raised
       THEN scan' = ScanFailed /\ UNCHANGED source
       ELSE /\ source' = IF SourceOf(scan.path) > Len(source)
                         THEN Append(source, [source_type |-> "filesystem",
                                              uri |-> scan.path])
                         ELSE source
            /\ scan' = [scan EXCEPT !.pc = "blob",
                                    !.source_id = SourceOf(scan.path)]
    /\ UNCHANGED <<disk, file_state, blob, queueVars, dbVars, agent, call, chatVars, libVars>>

\* the blob_id upsert_blob returns for (sha256, path)
BlobOf(sha, path) ==
    LET m == {k \in 1..Len(blob) : blob[k].sha256 = sha /\ blob[k].path = path}
    IN IF m = {} THEN Len(blob) + 1 ELSE CHOOSE k \in m : TRUE

\* step 6: upsert_blob
watcher_upsert_blob(raised) ==
    /\ scan.pc = "blob"
    /\ IF raised
       THEN scan' = ScanFailed /\ UNCHANGED blob
       ELSE LET bid == BlobOf(scan.sha, scan.path)
                row == [sha256 |-> scan.sha, path |-> scan.path,
                        mime |-> detect_mime(scan.path),
                        size_bytes |-> scan.st.size_bytes,
                        source_id |-> scan.source_id]
            IN /\ blob' = IF bid > Len(blob) THEN Append(blob, row)
                          ELSE [blob EXCEPT ![bid] = row]
               /\ scan' = [scan EXCEPT !.pc = "enqueue", !.blob_id = bid]
    /\ UNCHANGED <<disk, file_state, source, queueVars, dbVars, agent, call, chatVars, libVars>>

\* the payload of the ingest_blob job
WatcherPayload(f) ==
    [blob_id |-> f.blob_id, source_id |-> f.source_id, path |-> f.path,
     sha256 |-> f.sha, mime |-> detect_mime(f.path),
     size_bytes |-> f.st.size_bytes]

\* step 7: enqueue_job("ingest_blob", payload)
watcher_enqueue_job(raised) ==
    /\ scan.pc = "enqueue"
    /\ IF raised
       THEN scan' = ScanFailed /\ UNCHANGED jobs
       ELSE /\ jobs' = IF ExistingJobs("ingest_blob", WatcherPayload(scan)) # {}
                       THEN jobs
                       ELSE Append(jobs, [type     |-> "ingest_blob",
                                          payload  |-> WatcherPayload(scan),
                                          status   |-> "queued",
                                          attempts |-> 0])
            /\ scan' = [IdleScan EXCEPT !.path = scan.path,
                                        !.outcome = "enqueued"]
    /\ UNCHANGED <<disk, file_state, source, blob, worker, enq, dbVars, agent,
                   call, chatVars, libVars>>

WatchNext ==
    \/ \E p \in Paths : \E content \in DiskContents : touch_file(p, content)
    \/ \E p \in Paths : watcher_visit(p)
    \/ \E raised \in BOOLEAN : watcher_hash(raised)
    \/ \E raised \in BOOLEAN : watcher_upsert_file_state(raised)
    \/ \E raised \in BOOLEAN : watcher_upsert_source(raised)
    \/ \E raised \in BOOLEAN : watcher_upsert_blob(raised)
    \/ \E raised \in BOOLEAN : watcher_enqueue_job(raised)

(***************************************************************************)
(*          CHAT  (orchestrator.py chat, llm.py, weaver.py, verifier.py)   *)
(***************************************************************************)
_MAX_CHAT_INPUT_LEN == 50000

\* user_text, as far as chat looks at it: its length and whether "\x00" is in it
ChatTexts ==
    {[len |-> n, nul |-> b] :
        n \in {12, _MAX_CHAT_INPUT_LEN, _MAX_CHAT_INPUT_LEN + 1}, b \in BOOLEAN}

\* the top_k argument (ChatRequest allows 1..50)
TopKs == {2, 9}

\* the hops argument: ChatRequest allows ge=0, le=3
ChatHops == 0..3

\* RetrieveRequest(top_k=..., hops=...): the Field constraints of the model;
\* the constructor raises ValidationError when one is broken
RetrieveRequestValid(top_k, hops) ==
    /\ top_k >= 1 /\ top_k <= 200
    /\ hops >= 0 /\ hops <= 2

\* the memory a chat runs against: n cards with memory_id 1..n
ChatMemory(n) ==
    [k \in 1..n |-> [memory_id |-> k, card_type |-> "file_capture",
                     summary |-> "s", blob_id |-> "none",
                     trace_id |-> "none", pipeline |-> "doc"]]
ChatMemories == {ChatMemory(n) : n \in {0, 2, 10}}

\* the length check alone
_security_check_length_only(user_text) ==
    IF user_text.len > _MAX_CHAT_INPUT_LEN THEN "fail" ELSE "pass"

_security_check(user_text) ==
    IF user_text.len > _MAX_CHAT_INPUT_LEN THEN "fail"
    ELSE IF user_text.nul THEN "fail"
    ELSE "pass"

\* raw_results[:top_k] as evidence: one item per result, named by memory_id
_build_evidence(raw_results, top_k) ==
    SubSeq(raw_results, 1, Min(Len(raw_results), top_k))

\* the "citations" list of a model reply: cited memory_ids, 0 for an item
\* that is not a dict or names no memory
LLMCitationLists ==
    {<<>>, <<1>>, <<99>>, <<0, 2>>, <<1, 99, 2>>, <<10, 1>>,
     [k \in 1..9 |-> 1], [k \in 1..10 |-> k]}

\* what the generative model answers to the weaver prompt
WeaveReplies ==
    {[kind |-> "unavailable"], [kind |-> "text"]}
    \cup {[kind |-> "json", citations |-> cs, refs |-> r] :
             cs \in LLMCitationLists, r \in BOOLEAN}

\* what it answers to the verifier prompt
VerifyReplies ==
    {[kind |-> "unavailable"], [kind |-> "text"]}
    \cup {[kind |-> "json", verdict |-> v, revised_answer |-> ra,
           issues |-> is] :
             v \in {"pass", "revise", "abstain", "maybe"},
             ra \in {"", "revised"},
             is \in {<<>>, <<"claim 2 is unsupported", "wrong date">>}}

NoOverride == [kind |-> "none"]

\* s[:n]
Cap(s, n) == SubSeq(s, 1, Min(Len(s), n))

\* every citation kept, whatever it names
ValidCitationsUnfiltered(citations, evidence) == citations

\* [c for c in citations if isinstance(c, dict) and
\*  c.get("memory_id") in valid_ids]
ValidCitations(citations, evidence) ==
    LET valid_ids == {evidence[k] : k \in 1..Len(evidence)}
        Test(c) == c \in valid_ids
    IN SelectSeq(citations, Test)

_stub_weave(evidence) ==
    IF evidence = <<>>
    THEN [answer |-> "I could not find any relevant memories",
          citations |-> <<>>]
    ELSE [answer |-> "stub bullets [mid]", citations |-> Cap(evidence, 8)]

LLMAnswer(reply) ==
    IF reply.kind = "json" /\ reply.refs THEN "llm text [mid]" ELSE "llm text"

\* llm.py weave_with_llm
weave_with_llm(reply, evidence) ==
    CASE reply.kind = "json" ->
            [answer |-> LLMAnswer(reply),
             citations |-> Cap(ValidCitations(reply.citations, evidence), 8)]
      [] reply.kind = "text" -> [answer |-> "llm text", citations |-> <<>>]
      [] OTHER -> _stub_weave(evidence)

\* WeaverAgent.execute; max_citations is not among the inputs chat passes
WeaverExecute(override, reply, evidence) ==
    CASE override # NoOverride ->
            [answer |-> override.answer, citations |-> override.citations]
      [] reply.kind = "json" ->
            [answer |-> LLMAnswer(reply),
             citations |-> Cap(ValidCitations(reply.citations, evidence), 8)]
      [] OTHER -> _stub_weave(evidence)

\* re.search(r"\[[\w-]{8,}\]", answer)
HasInlineRefs(answer) == answer \in {"stub bullets [mid]", "llm text [mid]"}

\* llm.py _heuristic_verify(answer, evidence)
llm_heuristic_verify(answer, evidence) ==
    IF evidence = <<>>
    THEN [verdict |-> "abstain", revised_answer |-> "",
          issues |-> <<"No evidence available.">>]
    ELSE IF ~HasInlineRefs(answer)
    THEN [verdict |-> "revise", revised_answer |-> "",
          issues |-> <<"Answer contains no citations to evidence.">>]
    ELSE [verdict |-> "pass", revised_answer |-> "", issues |-> <<>>]

\* verifier.py _heuristic_verify(answer, citations, evidence)
_heuristic_verify(answer, citations, evidence) ==
    IF evidence = <<>>
    THEN [verdict |-> "abstain", revised_answer |-> "",
          issues |-> <<"No evidence available to verify against.">>]
    ELSE IF citations = <<>> /\ ~HasInlineRefs(answer)
    THEN [verdict |-> "revise", revised_answer |-> "",
          issues |-> <<"Answer contains no citations to evidence.">>]
    ELSE [verdict |-> "pass", revised_answer |-> "", issues |-> <<>>]

\* the verdict of a parsed reply
ParsedVerdict(reply) ==
    CASE reply.kind = "json" ->
            [verdict |-> IF reply.verdict \in {"pass", "revise", "abstain"}
                         THEN reply.verdict ELSE "pass",
             revised_answer |-> reply.revised_answer,
             issues |-> reply.issues]
      [] OTHER -> [verdict |-> "pass", revised_answer |-> "", issues |-> <<>>]

\* llm.py verify_with_llm
verify_with_llm(reply, answer, evidence) ==
    IF reply.kind = "unavailable" THEN llm_heuristic_verify(answer, evidence)
    ELSE ParsedVerdict(reply)

\* VerifierAgent.execute
VerifierExecute(override, reply, answer, citations, evidence) ==
    CASE override # NoOverride ->
            [verdict |-> override.verdict,
             revised_answer |-> override.revised_answer,
             issues |-> override.issues]
      [] reply.kind = "json" -> ParsedVerdict(reply)
      [] OTHER -> _heuristic_verify(answer, citations, evidence)

\* outputs of a verifier StepResult whose dispatch failed: {}
NoVerdict == [verdict |-> "", revised_answer |-> "", issues |-> <<>>]

\* ChatResult; of its steps, the answer of sr_weave.outputs and the outputs
\* of sr_verify as chat reads them
NoChatResult == [status |-> "none", verdict |-> "", answer |-> "",
                 citations |-> <<>>, evidence |-> <<>>,
                 weave_answer |-> "", verify_outputs |-> NoVerdict]

IdleChat ==
    [pc |-> "idle", trace_id |-> "none",
     user_text |-> [len |-> 0, nul |-> FALSE], top_k |-> 0,
     raw_results |-> <<>>, evidence |-> <<>>, use_llm |-> FALSE,
     override |-> NoOverride, parsed |-> <<>>, cur |-> NoHandle,
     prev |-> NULL, answer |-> "", citations |-> <<>>, ret |-> NoChatResult]

\* the frame with a dispatch in flight
ChatDispatch(db, c, tool_name, pc) ==
    [c EXCEPT !.pc = pc, !.cur = RunHandle(db, tool_name, c.prev)]

\* the "citations" list the model sent, kept to compare with what is returned
ParsedCitations(reply) ==
    IF reply.kind = "json" THEN reply.citations ELSE <<>>

\* chat down to the await of hybrid_retrieve, to the rejection, or to the
\* ValidationError that RetrieveRequest raises out of chat; one call per
\* behaviour, against any of the memories of InitChat
chat_begin(user_text, top_k, hops) ==
    /\ chat.pc = "idle"
    /\ LET trace_id == TraceOrder[1]
           db1 == insert_exec_trace(DB, trace_id)
           c == [IdleChat EXCEPT !.trace_id = trace_id,
                                 !.user_text = user_text, !.top_k = top_k]
       IN IF _security_check(user_text) # "pass"
          THEN /\ SetDB(finish_exec_trace(db1, trace_id, "rejected"))
               /\ chat' = [c EXCEPT !.pc = "done",
                              !.ret = [NoChatResult EXCEPT
                                          !.status = "rejected",
                                          !.answer = "Request rejected"]]
          ELSE /\ SetDB(db1)
               /\ chat' = [c EXCEPT !.pc =
                              IF RetrieveRequestValid(top_k * 3, hops)
                              THEN "retrieve" ELSE "raised"]
    /\ UNCHANGED <<conversation_turn, chat_citation, queueVars, agent, call,
                   watchVars, libVars>>

\* hybrid_retrieve returns m cards of the memory; the retrieval dispatch starts
chat_retrieved(m) ==
    /\ chat.pc = "retrieve"
    /\ m <= Len(memory_card)
    /\ m <= chat.top_k * 3
    /\ LET c == [chat EXCEPT
                    !.raw_results = [k \in 1..m |-> memory_card[k].memory_id]]
       IN /\ SetDB(dispatch_tool_begin(DB, c.trace_id, "retrieval", 15000))
          /\ chat' = ChatDispatch(DB, c, "retrieval", "exec_retrieval")
    /\ UNCHANGED <<conversation_turn, chat_citation, queueVars, agent, call,
                   watchVars, libVars>>

\* the retrieval dispatch returns; evidence; llm_available(); stub weaver
chat_retrieval_done(ex, use_llm) ==
    /\ chat.pc = "exec_retrieval"
    /\ LET d == dispatch_tool_end(DB, chat.trace_id, chat.cur,
                    RunResult(ex[1], ex[2], DefaultMaxOutputBytes), ex[3])
           c == [chat EXCEPT
                    !.prev = d.sr.exec_node_id, !.cur = NoHandle,
                    !.evidence = _build_evidence(chat.raw_results, chat.top_k),
                    !.use_llm = use_llm]
       IN IF use_llm
          THEN SetDB(d.db) /\ chat' = [c EXCEPT !.pc = "weave_llm"]
          ELSE /\ SetDB(dispatch_tool_begin(d.db, c.trace_id, "weaver", 30000))
               /\ chat' = ChatDispatch(d.db, c, "weaver", "exec_weaver")
    /\ UNCHANGED <<conversation_turn, chat_citation, queueVars, agent, call,
                   watchVars, libVars>>

\* weave_with_llm returns; the weaver dispatch starts with _llm_override
chat_weave_llm(reply) ==
    /\ chat.pc = "weave_llm"
    /\ LET c == [chat EXCEPT
                    !.override = weave_with_llm(reply, chat.evidence),
                    !.parsed = ParsedCitations(reply)]
       IN /\ SetDB(dispatch_tool_begin(DB, c.trace_id, "weaver", 180000))
          /\ chat' = ChatDispatch(DB, c, "weaver", "exec_weaver")
    /\ UNCHANGED <<conversation_turn, chat_citation, queueVars, agent, call,
                   watchVars, libVars>>

\* the weaver dispatch returns; answer, citations; stub verifier
chat_weaver_done(ex, reply) ==
    /\ chat.pc = "exec_weaver"
    /\ chat.override # NoOverride => reply.kind = "unavailable"
    /\ LET d == dispatch_tool_end(DB, chat.trace_id, chat.cur,
                    RunResult(ex[1], ex[2], DefaultMaxOutputBytes), ex[3])
           out == WeaverExecute(chat.override, reply, chat.evidence)
           ok  == d.sr.status = "ok"
           c == [chat EXCEPT
                    !.prev = d.sr.exec_node_id, !.cur = NoHandle,
                    !.override = NoOverride,
                    !.parsed = IF chat.override # NoOverride THEN @
                               ELSE ParsedCitations(reply),
                    !.answer = IF ok THEN out.answer ELSE "",
                    !.citations = IF ok THEN out.citations ELSE <<>>]
       IN IF chat.use_llm
          THEN SetDB(d.db) /\ chat' = [c EXCEPT !.pc = "verify_llm"]
          ELSE /\ SetDB(dispatch_tool_begin(d.db, c.trace_id, "verifier", 15000))
               /\ chat' = ChatDispatch(d.db, c, "verifier", "exec_verifier")
    /\ UNCHANGED <<conversation_turn, chat_citation, queueVars, agent, call,
                   watchVars, libVars>>

\* verify_with_llm returns; the verifier dispatch starts with _llm_override
chat_verify_llm(reply) ==
    /\ chat.pc = "verify_llm"
    /\ LET c == [chat EXCEPT
                    !.override = verify_with_llm(reply, chat.answer,
                                                 chat.evidence)]
       IN /\ SetDB(dispatch_tool_begin(DB, c.trace_id, "verifier", 60000))
          /\ chat' = ChatDispatch(DB, c, "verifier", "exec_verifier")
    /\ UNCHANGED <<queueVars, conversation_turn, chat_citation, agent, call,
                   watchVars, libVars>>

\* "; ".join(issues)
JoinIssues(issues) ==
    LET F[k \in 0..Len(issues)] ==
            IF k = 0 THEN ""
            ELSE IF k = 1 THEN issues[1]
            ELSE F[k - 1] \o "; " \o issues[k]
    IN F[Len(issues)]

\* lines 839-842: the insufficient-evidence message, then the issues if any
AbstainAnswer(issues) ==
    IF issues = <<>>
    THEN "I don't have enough evidence to answer this question reliably."
    ELSE "I don't have enough evidence to answer this question reliably. "
         \o "Issues: " \o JoinIssues(issues)

\* an answer that a revise verdict always replaces
FinalAnswerAlwaysRevised(answer, verdict, revised_answer, issues) ==
    IF verdict = "revise" THEN revised_answer
    ELSE IF verdict = "abstain" THEN AbstainAnswer(issues)
    ELSE answer

\* the answer after the verdict is applied (lines 836-842)
FinalAnswer(answer, verdict, revised_answer, issues) ==
    IF verdict = "revise" /\ revised_answer # "" THEN revised_answer
    ELSE IF verdict = "abstain" THEN AbstainAnswer(issues)
    ELSE answer

\* the verifier dispatch returns; the turn and its citations are persisted
chat_verifier_done(ex, reply) ==
    /\ chat.pc = "exec_verifier"
    /\ chat.override # NoOverride => reply.kind = "unavailable"
    /\ LET d == dispatch_tool_end(DB, chat.trace_id, chat.cur,
                    RunResult(ex[1], ex[2], DefaultMaxOutputBytes), ex[3])
           out == VerifierExecute(chat.override, reply, chat.answer,
                                  chat.citations, chat.evidence)
           ok  == d.sr.status = "ok"
           verdict == IF ok THEN out.verdict ELSE "pass"
           revised_answer == IF ok THEN out.revised_answer ELSE ""
           issues  == IF ok THEN out.issues ELSE <<>>
           answer  == FinalAnswer(chat.answer, verdict, revised_answer,
                                  issues)
           turn_id == Len(conversation_turn) + 1
       IN /\ conversation_turn' =
                 Append(conversation_turn,
                        [trace_id |-> chat.trace_id, verdict |-> verdict,
                         assistant_text |-> answer])
          /\ chat_citation' =
                 chat_citation \o
                 [k \in 1..Len(chat.citations) |->
                     [turn_id |-> turn_id, memory_id |-> chat.citations[k]]]
          /\ SetDB(finish_exec_trace(d.db, chat.trace_id, "done"))
          /\ chat' = [IdleChat EXCEPT
                         !.pc = "done",
                         !.trace_id = chat.trace_id,
                         !.user_text = chat.user_text,
                         !.use_llm = chat.use_llm,
                         !.parsed = chat.parsed,
                         !.ret = [status |-> "ok", verdict |-> verdict,
                                  answer |-> answer,
                                  citations |-> chat.citations,
                                  evidence |-> chat.evidence,
                                  weave_answer |-> chat.answer,
                                  verify_outputs |->
                                      IF ok THEN out ELSE NoVerdict]]
    /\ UNCHANGED <<queueVars, agent, call, watchVars, libVars>>

ChatNext ==
    \/ \E t \in ChatTexts : \E k \in TopKs : \E h \in ChatHops :
           chat_begin(t, k, h)
    \/ \E m \in {0, Len(memory_card)} : chat_retrieved(m)
    \/ \E ex \in Executions("retrieval") : \E l \in BOOLEAN :
           chat_retrieval_done(ex, l)
    \/ \E r \in WeaveReplies : chat_weave_llm(r)
    \/ \E ex \in Executions("weaver") : \E r \in WeaveReplies :
           chat_weaver_done(ex, r)
    \/ \E r \in VerifyReplies : chat_verify_llm(r)
    \/ \E ex \in Executions("verifier") : \E r \in VerifyReplies :
           chat_verifier_done(ex, r)

(***************************************************************************)
(*                GRAPH EXPANSION  (graph/service.py expand)               *)
(***************************************************************************)
\* the nodes of graph_node; every edge of graph_edge joins two of them
GraphNodes == 1..3

\* the rows graph_edge may hold when expand is called: a self-loop and a
\* cycle 1 -> 2 -> 3 -> 1
ExpandEdges ==
    {[edge_id |-> 1, from_node_id |-> 1, to_node_id |-> 1],
     [edge_id |-> 2, from_node_id |-> 1, to_node_id |-> 2],
     [edge_id |-> 3, from_node_id |-> 2, to_node_id |-> 3],
     [edge_id |-> 4, from_node_id |-> 3, to_node_id |-> 1]}

\* no entry in the paths dict
NoPath == <<0>>

\* paths.get(parent, [])
PathGet(paths, node) == IF paths[node] = NoPath THEN <<>> ELSE paths[node]

\* the rows the WHERE clause of _fetch_edges selects
MatchingEdges(edges, node_ids, direction) ==
    {e \in edges :
        CASE direction = "out" -> e.from_node_id \in node_ids
          [] direction = "in"  -> e.to_node_id \in node_ids
          [] OTHER -> e.from_node_id \in node_ids \/ e.to_node_id \in node_ids}

\* _fetch_edges: SELECT ... LIMIT ? without ORDER BY returns any limit of the
\* matching rows, in any order
_fetch_edges(edges, node_ids, direction, limit) ==
    LET m == MatchingEdges(edges, node_ids, direction)
        n == Min(limit, Cardinality(m))
    IN {rows \in [1..n -> m] :
           \A i, j \in 1..n : i # j => rows[i] # rows[j]}

\* expand entered: the locals before the hop loop
ExpandCall(seed_node_ids, hops, direction, max_nodes, max_edges) ==
    [name |-> "expand", pc |-> "hop",
     seed_node_ids |-> seed_node_ids, hops |-> hops, direction |-> direction,
     max_nodes |-> max_nodes, max_edges |-> max_edges,
     hop |-> 0, visited_nodes |-> seed_node_ids, collected_edges |-> <<>>,
     paths |-> [n \in GraphNodes |-> NoPath],
     frontier |-> seed_node_ids, next_frontier |-> {}, edge_rows |-> <<>>]

\* the for loop over edge_rows is left: frontier.extend(next_frontier)
EndHop(f) ==
    [f EXCEPT !.pc = "hop", !.hop = @ + 1, !.frontier = f.next_frontier,
              !.next_frontier = {}, !.edge_rows = <<>>]

\* the top of the hop loop: batch_ids, frontier.clear(), _fetch_edges
expand_fetch(rows) ==
    /\ fn.name = "expand" /\ fn.pc = "hop"
    /\ fn.hop < fn.hops
    /\ fn.frontier # {}
    /\ rows \in _fetch_edges(graph_edge, fn.frontier, fn.direction,
                             fn.max_edges - Len(fn.collected_edges))
    /\ LET f == [fn EXCEPT !.pc = "rows", !.frontier = {},
                           !.next_frontier = {}, !.edge_rows = rows]
       IN fn' = IF rows = <<>> THEN EndHop(f) ELSE f
    /\ UNCHANGED <<graph_edge, graph_node, queueVars, dbVars, agent, call, watchVars,
                   chatVars>>

\* one turn of the loop over edge_rows
expand_row ==
    /\ fn.name = "expand" /\ fn.pc = "rows"
    /\ LET edge == Head(fn.edge_rows)
           rest == Tail(fn.edge_rows)
           from_seen == edge.from_node_id \in fn.visited_nodes
           other  == IF from_seen THEN edge.to_node_id ELSE edge.from_node_id
           parent == IF from_seen THEN edge.from_node_id ELSE edge.to_node_id
           path   == PathGet(fn.paths, parent) \o <<edge.edge_id>>
           f1 == [fn EXCEPT !.collected_edges = Append(@, edge.edge_id),
                            !.edge_rows = rest]
           f2 == IF other \notin fn.visited_nodes
                 THEN [f1 EXCEPT !.visited_nodes = @ \cup {other},
                                 !.next_frontier = @ \cup {other},
                                 !.paths[other] = path]
                 ELSE IF fn.paths[other] = NoPath
                 THEN [f1 EXCEPT !.paths[other] = path]
                 ELSE f1
       IN fn' = IF Len(fn.collected_edges) >= fn.max_edges THEN EndHop(fn)
                ELSE IF other \notin fn.visited_nodes
                        /\ Cardinality(f2.visited_nodes) >= fn.max_nodes
                THEN EndHop(f2)
                ELSE IF rest = <<>> THEN EndHop(f2)
                ELSE f2
    /\ UNCHANGED <<graph_edge, graph_node, queueVars, dbVars, agent, call, watchVars,
                   chatVars>>

\* the hop loop is over: _fetch_nodes(visited_nodes), ExpandResponse
expand_return ==
    /\ fn.name = "expand" /\ fn.pc = "hop"
    /\ fn.hop >= fn.hops \/ fn.frontier = {}
    /\ fn' = [fn EXCEPT !.pc = "done"]
    /\ UNCHANGED <<graph_edge, graph_node, queueVars, dbVars, agent, call, watchVars,
                   chatVars>>

ExpandNext ==
    \/ \E rows \in _fetch_edges(graph_edge, fn.frontier, fn.direction,
                                 fn.max_edges - Len(fn.collected_edges)) :
           expand_fetch(rows)
    \/ expand_row
    \/ expand_return

(***************************************************************************)
(*      GRAPH EDGE WRITES  (graph/service.py upsert_edges, _upsert_graph)  *)
(***************************************************************************)
\* the edges callers write: GraphEdgeIn without its edge_id
\* node ids: <<"mem", memory_id>> is mem:<memory_id>, <<"ent", x>> is ent:<x>
EdgeInputs ==
    {[from_node_id |-> <<"mem", 1>>, edge_type |-> "MENTIONS",
      to_node_id |-> <<"ent", <<"label", t>>>>,
      valid_from |-> vf, valid_to |-> NullText] :
        t \in {<<"d", "o", "g">>, <<"c", "a", "t">>},
        vf \in {NullText, "", "2024-01-01"}}

\* the edge_id field of GraphEdgeIn: None, or an id the caller chose
GivenEdgeIds == {NullText, "edge-x"}

\* x or ""
OrEmpty(x) == IF x = NullText THEN "" ELSE x

\* sha256 of the five fields joined by "|", first 32 hex digits: equal inputs
\* of the digest give equal ids, different inputs different ids
_make_edge_id(edge) ==
    <<"sha256", edge.from_node_id, edge.edge_type, edge.to_node_id,
      OrEmpty(edge.valid_from), OrEmpty(edge.valid_to)>>

\* _upsert_graph: sha1 of from_node_id|edge_type|to_node_id
OrchestratorEdgeId(edge) ==
    <<"sha1", edge.from_node_id, edge.edge_type, edge.to_node_id>>

\* INSERT INTO graph_edge ... ON CONFLICT(edge_id) DO UPDATE SET edge_type,
\* weight, valid_from, valid_to, provenance
UpsertEdgeRow(edges, eid, e) ==
    IF \E r \in edges : r.edge_id = eid
    THEN {IF r.edge_id = eid
          THEN [r EXCEPT !.edge_type = e.edge_type,
                         !.valid_from = e.valid_from,
                         !.valid_to = e.valid_to]
          ELSE r : r \in edges}
    ELSE edges \cup {[edge_id |-> eid, from_node_id |-> e.from_node_id,
                      to_node_id |-> e.to_node_id, edge_type |-> e.edge_type,
                      valid_from |-> e.valid_from, valid_to |-> e.valid_to]}

\* GraphService.upsert_edges([e]) as POST /graph/upsert calls it:
\* eid = e.edge_id or _make_edge_id(e)
upsert_edges(e, edge_id) ==
    /\ fn = NoFn
    /\ graph_edge' = UpsertEdgeRow(graph_edge,
                        IF edge_id # NullText THEN <<"given", edge_id>>
                        ELSE _make_edge_id(e), e)
    /\ UNCHANGED <<fn, graph_node, queueVars, dbVars, agent, call, watchVars,
                   chatVars>>

(***************************************************************************)
(*        HYBRID RETRIEVAL SCORING  (retrieval/service.py)                 *)
(***************************************************************************)
\* signal scores are counted in hundredths, final scores and boosts in ten
\* thousandths, so that weight (in hundredths) * signal is exact
SignalOne == 100
FinalOne  == 100 * SignalOne

\* W_SEMANTIC, W_FTS, W_GRAPH, W_RECENCY, in hundredths
W_SEMANTIC == 45
W_FTS      == 35
W_GRAPH    == 15
W_RECENCY  == 5

\* MIN_SCORE = 0.18
MIN_SCORE == 1800

\* _SOURCE_BOOSTS.get(source_type or "", 0.0)
SourceBoost(source_type) ==
    CASE source_type = "browser_highlight" -> 1000
      [] source_type = "browser_bookmark"  -> 500
      [] source_type = "file_capture"      -> 300
      [] source_type = "audio_note"        -> 300
      [] source_type = "browser_visit"     -> 0 - 1000
      [] OTHER -> 0

\* no clamping
ClampOff(x, one) == x

\* max(0.0, min(1.0, x))
Clamp(x, one) == IF x < 0 THEN 0 ELSE IF x > one THEN one ELSE x

\* what the stores return for one card; -1 where a store has no hit for it
NoHit == 0 - 1
\* |bm25 rank| of the FTS hit
FtsRanks == {NoHit, 0, 1, 3, 9}
\* the score Qdrant reports, in hundredths
QdrantScores == {NoHit, 0 - 50, 0, 40, 100, 120}
\* the hop at which expand_from_seeds reached the card; 0 for not reached
GraphHops == 0..2
\* age of the card in days; NoHit for no created_at, -5 for a future date
CardAges == {NoHit, 0 - 5, 0, 30, 60}
SourceTypes == {"browser_highlight", "browser_bookmark", "file_capture",
                "browser_visit", "chat", NullText}

\* search_fts_phase5: 1 / (1 + abs(rank))
FtsScore(rank) == IF rank = NoHit THEN 0 ELSE SignalOne \div (1 + rank)

\* search_text_vectors: max(0.0, min(1.0, score))
SemanticScore(score) == IF score = NoHit THEN 0 ELSE Clamp(score, SignalOne)

\* _HOP_SCORES
GraphScore(hop) == CASE hop = 1 -> 70 [] hop = 2 -> 40 [] OTHER -> 0

\* _recency_score: exp(-days_ago / 30) in hundredths, rounded, at the ages
\* of CardAges; a negative age counts as 0 days
_recency_score(age) ==
    CASE age = NoHit -> 0
      [] age <= 0 -> Clamp(100, SignalOne)
      [] age = 30 -> Clamp(37, SignalOne)
      [] OTHER    -> Clamp(14, SignalOne)

\* the weighted sum before clamping
RawFinal(c, recency, source_type) ==
    W_SEMANTIC * c.semantic_score + W_FTS * c.fts_score
    + W_GRAPH * c.graph_score + W_RECENCY * recency
    + SourceBoost(source_type)

\* _expand: the GraphCandidate of a card reached at hop 1 or 2 through the
\* entity it shares with a seed (or with a hop-1 card); a card not reached has
\* no GraphCandidate and keeps the defaults of _Candidate
GraphCandidate(hop) ==
    [graph_score |-> GraphScore(hop),
     via_entity_ids |-> IF hop = 0 THEN <<>> ELSE <<"ent:e1">>]

\* the reason tags stages 1 to 3 add for the card
Reasons(rank, score, hop) ==
    {"fts_match" : x \in {rank} \ {NoHit}}
    \cup {"semantic_text" : x \in {score} \ {NoHit}}
    \cup {"graph_expand" : x \in {hop} \ {0}}

\* graph_path = None
NoGraphPath == [via_entity_ids |-> <<"None">>]

\* hybrid_retrieve entered for a query that the stores answer with one card
RetrieveCall(rank, score, hop, age, source_type) ==
    [name |-> "hybrid_retrieve", pc |-> "search", rank |-> rank,
     score |-> score, hop |-> hop, age |-> age, source_type |-> source_type,
     candidates |-> <<>>, results |-> <<>>]

\* stages 1 to 3: the candidate with its three scores
retrieve_candidates ==
    /\ fn.name = "hybrid_retrieve" /\ fn.pc = "search"
    /\ fn' = [fn EXCEPT
                !.pc = "fuse",
                !.candidates =
                    IF fn.rank = NoHit /\ fn.score = NoHit /\ fn.hop = 0
                    THEN <<>>
                    ELSE <<[fts_score |-> FtsScore(fn.rank),
                            semantic_score |-> SemanticScore(fn.score),
                            graph_score |-> GraphCandidate(fn.hop).graph_score,
                            via_entity_ids |->
                                GraphCandidate(fn.hop).via_entity_ids,
                            reasons |-> Reasons(fn.rank, fn.score, fn.hop)]>>]
    /\ UNCHANGED <<graph_edge, graph_node, queueVars, dbVars, agent, call, watchVars,
                   chatVars>>

\* stages 4 to 6: recency, boost, clamped sum, MIN_SCORE filter
retrieve_fuse ==
    /\ fn.name = "hybrid_retrieve" /\ fn.pc = "fuse"
    /\ LET Card(c) ==
               LET recency == _recency_score(fn.age)
               IN [final_score |->
                       Clamp(RawFinal(c, recency, fn.source_type), FinalOne),
                   signals |-> [fts |-> c.fts_score,
                                semantic |-> c.semantic_score,
                                graph |-> c.graph_score,
                                recency |-> recency,
                                source_boost |-> SourceBoost(fn.source_type)],
                   reasons |-> c.reasons,
                   graph_path |->
                       IF c.via_entity_ids # <<>>
                       THEN [via_entity_ids |-> c.via_entity_ids]
                       ELSE NoGraphPath]
           results == [k \in 1..Len(fn.candidates) |-> Card(fn.candidates[k])]
           Kept(r) == r.final_score >= MIN_SCORE
       IN fn' = [fn EXCEPT !.pc = "done",
                           !.results = SelectSeq(results, Kept)]
    /\ UNCHANGED <<graph_edge, graph_node, queueVars, dbVars, agent, call, watchVars,
                   chatVars>>

RetrieveNext == retrieve_candidates \/ retrieve_fuse

(***************************************************************************)
(*        CARD TEXT CAPS  (db/repo.py insert_memory_card, lines 211-228)   *)
(***************************************************************************)
_MAX_SUMMARY_CHARS == 400
_MAX_CONTENT_TEXT_CHARS == 200000

\* a str is the sequence of its characters; None is NoText
NoText == <<"None">>
Rep(ch, n) == [k \in 1..n |-> ch]
Whitespace == {" ", "\n"}

\* s[:n]
Slice(s, n) == SubSeq(s, 1, Min(n, Len(s)))

\* s.rstrip()
rstrip(s) ==
    LET keep == {k \in 1..Len(s) : s[k] \notin Whitespace}
    IN IF keep = {} THEN <<>>
       ELSE SubSeq(s, 1, CHOOSE k \in keep : \A j \in keep : j <= k)

\* s.strip()
strip(s) ==
    LET keep == {k \in 1..Len(s) : s[k] \notin Whitespace}
        r == rstrip(s)
    IN IF keep = {} THEN <<>>
       ELSE SubSeq(r, CHOOSE k \in keep : \A j \in keep : k <= j, Len(r))

\* s.rfind("." + ch): 0-based index of the last occurrence, -1 if none
rfind(s, ch) ==
    LET at == {k \in 1..(Len(s) - 1) : s[k] = "." /\ s[k + 1] = ch}
    IN IF at = {} THEN 0 - 1
       ELSE (CHOOSE k \in at : \A j \in at : j <= k) - 1

\* bool(s) for a str or None
Truthy(s) == s # NoText /\ s # <<>>

\* summary == content_text[:len(summary)]
IsPrefixOf(summary, content_text) ==
    summary = Slice(content_text, Len(summary))

\* insert_memory_card down to the INSERT: the summary and content_text stored
CappedText(summary0, content_text0) ==
    LET summary1 ==
            IF Truthy(summary0) /\ Len(summary0) > _MAX_SUMMARY_CHARS
            THEN rstrip(Slice(summary0, _MAX_SUMMARY_CHARS - 3))
                 \o <<".", ".", ".">>
            ELSE summary0
        content_text ==
            IF Truthy(content_text0)
               /\ Len(content_text0) > _MAX_CONTENT_TEXT_CHARS
            THEN Slice(content_text0, _MAX_CONTENT_TEXT_CHARS)
            ELSE content_text0
        cut  == Slice(content_text, _MAX_SUMMARY_CHARS)
        idx1 == rfind(cut, " ")
        idx2 == rfind(cut, "\n")
        summary2 ==
            IF Truthy(summary1) /\ Truthy(content_text)
               /\ IsPrefixOf(summary1, content_text)
            THEN IF idx1 > 30 THEN strip(Slice(cut, idx1 + 1))
                 ELSE IF idx2 > 30 THEN strip(Slice(cut, idx2 + 1))
                 ELSE summary1
            ELSE summary1
    IN [summary |-> summary2, content_text |-> content_text]

\* the texts callers pass
LongSentence  == Rep("a", 40) \o <<".", " ">> \o Rep("b", 10)
ShortSentence == Rep("a", 10) \o <<".", " ">> \o Rep("b", 5)
CardSummaries ==
    {<<>>, Rep("a", 5), Rep("a", 400), Rep("a", 401),
     Rep("a", 395) \o Rep(" ", 3) \o Rep("b", 5),
     LongSentence, Slice(LongSentence, 20), ShortSentence}
CardContents ==
    {NoText, <<>>, Rep("a", 5), Rep("a", 5) \o Rep("b", 3), LongSentence,
     LongSentence \o Rep("c", 500), ShortSentence,
     Rep("a", 40) \o <<".", "\n">> \o Rep("b", 10),
     Rep("a", _MAX_CONTENT_TEXT_CHARS + 1)}

\* insert_memory_card entered
CardCall(summary, content_text) ==
    [name |-> "insert_memory_card", pc |-> "call", summary |-> summary,
     content_text |-> content_text]

\* insert_memory_card: the row is written
card_insert ==
    /\ fn.name = "insert_memory_card" /\ fn.pc = "call"
    /\ LET t == CappedText(fn.summary, fn.content_text)
       IN memory_card' =
              Append(memory_card,
                     [memory_id |-> Len(memory_card) + 1,
                      card_type |-> "file_capture", summary |-> t.summary,
                      content_text |-> t.content_text, blob_id |-> "none",
                      trace_id |-> "none", pipeline |-> "none"])
    /\ fn' = [fn EXCEPT !.pc = "done"]
    /\ UNCHANGED <<tool_call, exec_node, exec_edge, exec_trace, clock,
                   graph_edge, graph_node, queueVars, agent, call, watchVars, chatVars>>

(***************************************************************************)
(*      ENTITY NAME CANONICALIZATION  (graph/canonicalize.py)              *)
(***************************************************************************)
\* the characters of the names below; a fancy apostrophe is one character
RSQUO == "U+2019"
GRAVE == "U+0060"
UpperOf == [a |-> "A", c |-> "C", d |-> "D", e |-> "E", g |-> "G",
            h |-> "H", o |-> "O", p |-> "P", s |-> "S", t |-> "T"]
LowerLetters == {"a", "b", "c", "d", "e", "g", "h", "i", "l", "m", "n", "o",
                 "p", "r", "s", "t", "u", "y"}
\* ch.lower()
Lower(ch) ==
    IF \E l \in DOMAIN UpperOf : UpperOf[l] = ch
    THEN CHOOSE l \in DOMAIN UpperOf : UpperOf[l] = ch
    ELSE ch

\* _UNICODE_APOSTROPHES
Translate(ch) == IF ch \in {RSQUO, GRAVE} THEN "'" ELSE ch

MapSeq(s, Op(_)) == [k \in 1..Len(s) |-> Op(s[k])]

\* the while loop: surrounding quotes and brackets are removed
Brackets == {<<"\"", "\"">>, <<"'", "'">>, <<"(", ")">>, <<"[", "]">>,
             <<"{", "}">>}
Unwrap(s) ==
    LET once(t) == IF Len(t) >= 2 /\ <<t[1], t[Len(t)]>> \in Brackets
                   THEN strip(SubSeq(t, 2, Len(t) - 1))
                   ELSE t
        U[n \in 0..Len(s)] == IF n = 0 THEN s ELSE once(U[n - 1])
    IN U[Len(s)]

\* _STRIP_PUNCT_RE.sub("", s): only \w, \s, hyphen and apostrophe stay
StripPunct(s) ==
    SelectSeq(s, LAMBDA ch : \/ ch \in LowerLetters \/ ch \in Whitespace
                             \/ ch \in {"-", "'", "_"}
                             \/ ch \in {UpperOf[l] : l \in DOMAIN UpperOf})

\* " ".join(s.split())
Collapse(s) ==
    LET t == strip(s)
        F[k \in 0..Len(t)] ==
            IF k = 0 THEN <<>>
            ELSE IF t[k] \in Whitespace
                 THEN IF t[k - 1] \in Whitespace THEN F[k - 1]
                      ELSE Append(F[k - 1], " ")
                 ELSE Append(F[k - 1], t[k])
    IN F[Len(t)]

\* _LEADING_ARTICLES_RE.sub("", s):  ^(a|an|the)\s+
Articles == {<<"a">>, <<"a", "n">>, <<"t", "h", "e">>}
StripArticle(s) ==
    LET hit == {a \in Articles :
                   /\ Len(s) > Len(a)
                   /\ MapSeq(SubSeq(s, 1, Len(a)), Lower) = a
                   /\ s[Len(a) + 1] \in Whitespace}
    IN IF hit = {} THEN s
       ELSE LET a    == CHOOSE x \in hit : TRUE
                rest == SubSeq(s, Len(a) + 1, Len(s))
                text == {k \in 1..Len(rest) : rest[k] \notin Whitespace}
            IN IF text = {} THEN <<>>
               ELSE SubSeq(rest, CHOOSE k \in text : \A j \in text : k <= j,
                           Len(rest))

\* the entries of _CANONICAL_TYPES the entity types below reach
_CANONICAL_TYPES ==
    {<<<<"p", "e", "r", "s", "o", "n">>, "Person">>,
     <<<<"o", "r", "g">>, "Org">>,
     <<<<"c", "i", "t", "y">>, "Place">>,
     <<<<"t", "o", "p", "i", "c">>, "Topic">>,
     <<<<"o", "t", "h", "e", "r">>, "Other">>}
_NO_SINGULARIZE_TYPES == {"Person", "Org", "Place", "Project"}

normalize_entity_type(raw_type) ==
    IF raw_type = <<>> THEN "Other"
    ELSE LET key == MapSeq(strip(raw_type), Lower)
         IN IF \E e \in _CANONICAL_TYPES : e[1] = key
            THEN (CHOOSE e \in _CANONICAL_TYPES : e[1] = key)[2]
            ELSE "Other"

\* step 9 with the plural rule left out
SingularizeOff(s, norm_type) == s

\* step 9
Singularize(s, norm_type) ==
    IF /\ norm_type \notin _NO_SINGULARIZE_TYPES
       /\ Len(s) > 3 /\ s[Len(s)] = "s" /\ s[Len(s) - 1] # "s"
    THEN SubSeq(s, 1, Len(s) - 1)
    ELSE s

canonicalize_entity_name(name, entity_type) ==
    IF name = NoText THEN <<>>
    ELSE IF strip(name) = <<>> THEN <<>>
    ELSE LET s3 == MapSeq(strip(name), Lower)
             s4 == MapSeq(s3, Translate)
             s5 == Unwrap(s4)
             s6 == StripPunct(s5)
             s7 == Collapse(s6)
             s8 == StripArticle(s7)
             norm_type == IF entity_type # <<>>
                          THEN normalize_entity_type(entity_type)
                          ELSE "Other"
         IN strip(Singularize(s8, norm_type))

\* graph_compact: ent: + the first 16 hex digits of sha1(norm_type|canon)
_canonical_node_id(norm_type, canon) ==
    <<"ent", <<"sha1", norm_type, "|", canon>>>>

Dog == <<"d", "o", "g">>
DogNames ==
    {<<"D", "o", "g">>, Dog, <<"d", "o", "g", "s">>,
     <<" ", " ", "d", "o", "g", ".", " ">>, <<"a", " ", "d", "o", "g">>,
     <<"t", "h", "e", " ", "D", "o", "g", "s", "!">>}
EntityNames ==
    DogNames \cup
    {NoText, <<>>, <<" ", " ">>,
     <<"g", "l", "a", "s", "s">>, <<"b", "u", "s">>,
     <<"\"", "(", "t", "h", "e", " ", " ", "C", "a", "t", "s", ")", "\"">>,
     <<"A", "n", " ", "a", "p", "p", "l", "e", RSQUO, "s">>,
     <<"a", "n", "t", "s">>, <<"t", "h", "e", " ">>,
     <<"s", "t", "a", "t", "e", "-", "o", "f", "-", "t", "h", "e", "-", "a",
       "r", "t">>}
EntityTypes ==
    {<<"T", "o", "p", "i", "c">>, <<" ", "t", "o", "p", "i", "c", " ">>,
     <<"P", "e", "r", "s", "o", "n">>, <<"O", "r", "g">>,
     <<"c", "i", "t", "y">>, <<"x", "y", "z", "z", "y">>, <<>>}

\* canonicalize_entity_name entered
CanonCall(name, entity_type) ==
    [name |-> "canonicalize_entity_name", pc |-> "call", input |-> name,
     entity_type |-> entity_type, result |-> NoText, node_id |-> <<"none">>]

\* canonicalize_entity_name returns and the node id is derived from it
canon_return ==
    /\ fn.name = "canonicalize_entity_name" /\ fn.pc = "call"
    /\ LET canon == canonicalize_entity_name(fn.input, fn.entity_type)
       IN fn' = [fn EXCEPT
                   !.pc = "done", !.result = canon,
                   !.node_id =
                       _canonical_node_id(
                           normalize_entity_type(fn.entity_type), canon)]
    /\ UNCHANGED <<tool_call, exec_node, exec_edge, exec_trace, memory_card,
                   clock, graph_edge, graph_node, queueVars, agent, call, watchVars,
                   chatVars>>

(***************************************************************************)
(*  GRAPH COMMIT OF AN INGEST  (agents/graph_builder.py,                   *)
(*  Orchestrator._upsert_graph, routers/ingest.py)                         *)
(***************************************************************************)
MaxGraphIngests == 2

\* ch.upper()
Upper(ch) == IF ch \in DOMAIN UpperOf THEN UpperOf[ch] ELSE ch
IsUpper(ch) == \E l \in DOMAIN UpperOf : UpperOf[l] = ch
IsLetter(ch) == ch \in LowerLetters \/ IsUpper(ch)

\* the entries of _STOPWORDS the texts below reach
_STOPWORDS == {<<"T", "H", "E">>, <<"H", "A", "S">>}

\* content_text as the sequence of its words, single spaces between them; in
\* the texts below no two capitalised words stand side by side and there is
\* no URL, e-mail address or date, so _WORD_RE alone finds entities
ContentTexts ==
    {<<>>,
     << <<"D", "o", "g">> >>,
     << <<"D", "o", "g", "s">> >>,
     << <<"D", "o", "g">>, <<"h", "a", "s">>, <<"D", "O", "G">> >>,
     << <<"T", "h", "e">>, <<"d", "o", "g">> >>,
     << <<"D", "o", "g">>, <<"o", "r">>, <<"D", "o", "g", "s">> >>}

\* _WORD_RE: \b[A-Z][A-Za-z]{2,}\b
MatchesWord(w) ==
    /\ Len(w) >= 3 /\ IsUpper(w[1])
    /\ \A k \in 2..Len(w) : IsLetter(w[k])

\* _extract_entities: the labels found, in order, one per upper-cased key
_extract_entities(text) ==
    LET key(w) == MapSeq(w, Upper)
        F[k \in 0..Len(text)] ==
            IF k = 0 THEN <<>>
            ELSE IF /\ MatchesWord(text[k])
                    /\ key(text[k]) \notin _STOPWORDS
                    /\ \A j \in 1..Len(F[k - 1]) :
                           key(F[k - 1][j].label) # key(text[k])
                 THEN Append(F[k - 1],
                             [label |-> text[k], entity_type |-> "Entity",
                              confidence |-> 30])
                 ELSE F[k - 1]
    IN F[Len(text)]

\* inputs.get(key, default) on the inputs of an envelope
InputGet(inputs, key, default) ==
    IF key \in DOMAIN inputs THEN inputs[key] ELSE default

\* ent_id = f"ent:{label.lower().replace(' ', '_')}"
BuilderEntId(label) ==
    <<"ent", <<"label", MapSeq(MapSeq(label, Lower),
                               LAMBDA ch : IF ch = " " THEN "_" ELSE ch)>>>>

\* GraphBuilderAgent.execute
GraphBuilderExecute(inputs) ==
    LET content_text == InputGet(inputs, "content_text", <<>>)
        memory_id    == InputGet(inputs, "memory_id", NULL)
        entities     == _extract_entities(content_text)
    IN [nodes |-> [k \in 1..Len(entities) |->
                      [node_id |-> BuilderEntId(entities[k].label),
                       node_type |-> entities[k].entity_type,
                       props |-> [label |-> entities[k].label]]],
        edges |-> IF memory_id = NULL THEN <<>>
                  ELSE [k \in 1..Len(entities) |->
                           [from_node_id |-> <<"mem", memory_id>>,
                            to_node_id |-> BuilderEntId(entities[k].label),
                            edge_type |-> "MENTIONS",
                            valid_from |-> NullText, valid_to |-> NullText]]]

\* INSERT INTO graph_node ... ON CONFLICT(node_id) DO UPDATE SET node_type,
\* props
UpsertNodeRow(nodes, n) ==
    {r \in nodes : r.node_id # n.node_id} \cup {n}

\* GraphService.upsert_nodes(ns)
UpsertNodes(nodes, ns) ==
    LET F[k \in 0..Len(ns)] ==
            IF k = 0 THEN nodes ELSE UpsertNodeRow(F[k - 1], ns[k])
    IN F[Len(ns)]

\* GraphService.upsert_edges(es) where the edge_id of each is IdOf(e)
UpsertEdges(edges, es, IdOf(_)) ==
    LET F[k \in 0..Len(es)] ==
            IF k = 0 THEN edges
            ELSE UpsertEdgeRow(F[k - 1], IdOf(es[k]), es[k])
    IN F[Len(es)]

MemoryNode(memory_id) ==
    [node_id |-> <<"mem", memory_id>>, node_type |-> "MemoryCard",
     props |-> [label |-> <<>>]]

\* memory_id = _new_id(): an id no card has yet
NewMemoryId ==
    1 + Cardinality({r \in graph_node : r.node_type = "MemoryCard"})

\* the inputs _ingest_sequential and _ingest_image wire to graph_builder
\* (lines 208-217, 602-612): entities, memory_id and source
OrchestratorBuilderInputs(memory_id) ==
    [entities |-> <<>>, memory_id |-> memory_id, source |-> "source"]

\* the graph_builder step and Orchestrator._upsert_graph of one ingest
_upsert_graph(text) ==
    /\ fn = NoFn
    /\ NewMemoryId <= MaxGraphIngests
    /\ LET outputs ==
               GraphBuilderExecute(OrchestratorBuilderInputs(NewMemoryId))
       IN /\ graph_node' =
                 UpsertNodes(graph_node,
                             <<MemoryNode(NewMemoryId)>> \o outputs.nodes)
          /\ graph_edge' =
                 UpsertEdges(graph_edge, outputs.edges, OrchestratorEdgeId)
    /\ UNCHANGED <<fn, queueVars, dbVars, agent, call, watchVars, chatVars>>

\* POST /ingest (routers/ingest.py): graph_builder is given content_text,
\* and its nodes and edges go to upsert_nodes and upsert_edges as they are
route_ingest(text) ==
    /\ fn = NoFn
    /\ NewMemoryId <= MaxGraphIngests
    /\ LET outputs ==
               GraphBuilderExecute([content_text |-> text,
                                    memory_id |-> NewMemoryId,
                                    _call_id |-> "call"])
       IN /\ graph_node' =
                 UpsertNodes(graph_node,
                             <<MemoryNode(NewMemoryId)>> \o outputs.nodes)
          /\ graph_edge' =
                 UpsertEdges(graph_edge, outputs.edges, _make_edge_id)
    /\ UNCHANGED <<fn, queueVars, dbVars, agent, call, watchVars, chatVars>>

GraphNext ==
    \/ \E e \in EdgeInputs : \E edge_id \in GivenEdgeIds :
           upsert_edges(e, edge_id)
    \/ \E text \in ContentTexts : _upsert_graph(text)
    \/ \E text \in ContentTexts : route_ingest(text)

(***************************************************************************)
(*                           SPECIFICATIONS                                *)
(***************************************************************************)
IdleEnq    == [pc |-> "idle", payload |-> NoPayload, ret |-> NULL,
               inserted |-> FALSE]

InitAll(cards, nodes, edges, f) ==
    /\ jobs = <<>>
    /\ worker = [w \in Workers |-> IdleWorker]
    /\ enq = [e \in Enqueuers |-> IdleEnq]
    /\ tool_call = <<>>
    /\ exec_node = <<>>
    /\ exec_edge = <<>>
    /\ exec_trace = [t \in TraceIds |-> NoTrace]
    /\ memory_card = cards
    /\ clock = 1
    /\ agent = [r \in Runners |-> IdleAgent]
    /\ call = [i \in Calls |-> IdleCall]
    /\ disk = [p \in Paths |-> [mtime_ns |-> 1, size_bytes |-> 10,
                                sha256 |-> "h1"]]
    /\ file_state = [p \in Paths |-> NoFileState]
    /\ source = <<>>
    /\ blob = <<>>
    /\ scan = IdleScan
    /\ chat = IdleChat
    /\ conversation_turn = <<>>
    /\ chat_citation = <<>>
    /\ fn = f
    /\ graph_edge = edges
    /\ graph_node = nodes

InitWith(cards, edges, f) == InitAll(cards, {}, edges, f)

Init == InitWith(<<>>, {}, NoFn)

\* ids are interchangeable: a caller passes one already seen or the first new
\* one (a trace id left out is a new one, trace_id or _new_id())
SeenOrNext(ids, seen) ==
    {ids[k] : k \in {j \in 1..Len(ids) :
                        \A m \in 1..(j - 1) : ids[m] \in seen}}

SeenBlobs  == {call[k].blob_id : k \in Calls}
SeenTraces == {call[k].trace_id : k \in Calls}

Next ==
    \/ \E i \in Calls : \E b \in SeenOrNext(BlobOrder, SeenBlobs) :
       \E f \in Files : \E sz \in FileSizes :
       \E t \in SeenOrNext(TraceOrder, SeenTraces) :
           ingest_blob(i, b, f.mime, f.ext, sz, t, f.readable)
    \/ \E i \in Calls : gather_begin(i)
    \/ \E i \in Calls : \E ex \in Executions("ocr") : ocr_done(i, ex)
    \/ \E i \in Calls : \E ex \in Executions("vision_embed") :
           vision_embed_done(i, ex)
    \/ \E i \in Calls : \E ex \in Executions(call[i].cur.tool_name) :
           sequential_tool_done(i, ex)
    \/ \E i \in Calls : \E ex \in Executions(call[i].cur.tool_name) :
           image_tool_done(i, ex)

\* ingest_blob called while other calls are suspended at an await (the
\* coroutines of one event loop, or of several API processes on one
\* database), for the files of the sequential pipelines
SequentialFiles == {f \in Files : ~is_image_pipeline(choose_pipeline(f.mime, f.ext))}

ConcurrentNext ==
    \/ \E i \in Calls : \E b \in SeenOrNext(BlobOrder, SeenBlobs) :
       \E f \in SequentialFiles :
       \E t \in SeenOrNext(TraceOrder, SeenTraces) :
           /\ \A k \in Calls : k < i => call[k].pc # "idle"
           /\ ingest_blob_enter(i, b, f.mime, f.ext, EG_MAX_FILE_BYTES, t,
                                f.readable)
    \/ \E i \in Calls : \E ex \in Executions(call[i].cur.tool_name) :
           sequential_tool_done(i, ex)

Spec      == Init /\ [][Next]_vars
SpecQueue == Init /\ [][QueueNext]_vars

\* the worker task runs for as long as the API does: each statement of
\* worker_loop that is due is executed. Nothing obliges a handler to be cut
\* short by a restart, or a caller to enqueue
WorkerFairness ==
    \A w \in Workers :
        /\ WF_vars(claim_job_select(w))
        /\ WF_vars(claim_job_update(w))
        /\ WF_vars(\E outcome \in HandlerOutcomes(worker[w].row.type) :
                       worker_handle(w, outcome))
        /\ WF_vars(\E raised \in BOOLEAN : worker_complete(w, raised))
SpecQueueFair == Init /\ [][QueueNext]_vars /\ WorkerFairness
SpecRun   == Init /\ [][RunNext]_vars
SpecWatch == Init /\ [][WatchNext]_vars
SpecConcurrent == Init /\ [][ConcurrentNext]_vars

\* one ingest_blob call on an image file, of a size within the cap or over it
ImageFiles == {f \in Files : is_image_pipeline(choose_pipeline(f.mime, f.ext))}
ImageNext ==
    \/ \E b \in SeenOrNext(BlobOrder, SeenBlobs) :
       \E f \in ImageFiles : \E sz \in FileSizes :
       \E t \in SeenOrNext(TraceOrder, SeenTraces) :
           ingest_blob(1, b, f.mime, f.ext, sz, t, f.readable)
    \/ gather_begin(1)
    \/ \E ex \in Executions("ocr") : ocr_done(1, ex)
    \/ \E ex \in Executions("vision_embed") : vision_embed_done(1, ex)
    \/ \E ex \in Executions(call[1].cur.tool_name) : image_tool_done(1, ex)
SpecImage == Init /\ [][ImageNext]_vars

\* chat runs against a memory of any of the sizes in ChatMemories
InitChat == \E cards \in ChatMemories : InitWith(cards, {}, NoFn)
SpecChat == InitChat /\ [][ChatNext]_vars

\* expand is called on any graph over ExpandEdges
InitExpand ==
    \E edges \in SUBSET ExpandEdges :
    \E seed_node_ids \in {{1}, {3}, {1, 2}} :
    \E hops \in 1..2 : \E direction \in {"out", "in", "both"} :
    \E max_nodes \in {2, 300} : \E max_edges \in {2, 1000} :
        InitWith(<<>>, edges,
                 ExpandCall(seed_node_ids, hops, direction, max_nodes,
                            max_edges))
SpecExpand == InitExpand /\ [][ExpandNext]_vars
SpecGraph  == Init /\ [][GraphNext]_vars

\* hybrid_retrieve is called where the stores hold any combination of signals
InitRetrieve ==
    \E rank \in FtsRanks : \E score \in QdrantScores : \E hop \in GraphHops :
    \E age \in CardAges : \E source_type \in SourceTypes :
        InitWith(<<>>, {}, RetrieveCall(rank, score, hop, age, source_type))
SpecRetrieve == InitRetrieve /\ [][RetrieveNext]_vars

\* insert_memory_card is called with any of the texts
InitCard ==
    \E summary \in CardSummaries : \E content_text \in CardContents :
        InitWith(<<>>, {}, CardCall(summary, content_text))
SpecCard == InitCard /\ [][card_insert]_vars

\* canonicalize_entity_name is called with any of the names and types
InitCanon ==
    \E name \in EntityNames : \E entity_type \in EntityTypes :
        InitWith(<<>>, {}, CanonCall(name, entity_type))
SpecCanon == InitCanon /\ [][canon_return]_vars

(***************************************************************************)
(*                              PROPERTIES                                 *)
(***************************************************************************)
Terminal == {"done", "error", "rejected"}
NonTerminalJob == {"queued", "running"}
SequentialPipelines == {"doc_parse", "asr"}

CardExistsFor(blob_id) ==
    \E k \in 1..Len(memory_card) : memory_card[k].blob_id = blob_id

AtMostOneCardPerBlob ==
    \A j, k \in 1..Len(memory_card) :
        memory_card[j].blob_id = memory_card[k].blob_id => j = k

\* an ingest_blob call that starts while a card references its blob_id
\* returns at once with that card's id, and writes nothing
StartWithCardSkips ==
    \A i \in Calls :
        (/\ call[i].pc = "idle"
         /\ call'[i].pc # "idle"
         /\ CardExistsFor(call'[i].blob_id))
        => /\ call'[i].pc = "done"
           /\ call'[i].ret.status = "idempotent_skip"
           /\ call'[i].ret.pipeline = "skip"
           /\ \E k \in 1..Len(memory_card) :
                 /\ memory_card[k].blob_id = call'[i].blob_id
                 /\ memory_card[k].memory_id = call'[i].ret.memory_id
           /\ call'[i].ret.steps = <<>>
           /\ tool_call' = tool_call
           /\ exec_node' = exec_node
           /\ exec_trace' = exec_trace
           /\ memory_card' = memory_card

ClaimJobAtomic ==
    /\ \A j \in 1..Len(jobs) : jobs[j].attempts <= 1
    /\ \A w1, w2 \in Workers :
          (/\ w1 # w2
           /\ worker[w1].pc = "handling"
           /\ worker[w2].pc = "handling")
          => worker[w1].job # worker[w2].job

\* C3: at most one job with status queued or running exists per
\* (type, payload).
OneNonTerminalJobPerPayload ==
    \A j1, j2 \in 1..Len(jobs) :
        (/\ jobs[j1].status \in NonTerminalJob
         /\ jobs[j2].status \in NonTerminalJob
         /\ jobs[j1].type = jobs[j2].type
         /\ jobs[j1].payload = jobs[j2].payload)
        => j1 = j2

\* C4: once an exec_trace row holds a terminal status, no step changes its
\* status or its finished_ts.
TerminalTraceNeverRevised ==
    [][\A t \in TraceIds :
          exec_trace[t].status \in Terminal => exec_trace'[t] = exec_trace[t]]_vars

\* sequential predecessor -> successor dispatch pairs of a finished ingest:
\* every dispatch but the first of a sequential pipeline, every dispatch but
\* the two gathered ones of the image pipeline
DispatchPairs(c) ==
    IF c.ret.steps = <<>> THEN 0
    ELSE IF c.pipeline \in SequentialPipelines THEN Len(c.ret.steps) - 1
    ELSE Len(c.ret.steps) - 2

TraceUsedOnce(i) ==
    \A k \in Calls : k # i => call[k].trace_id # call[i].trace_id

\* C5: for an ingest that returned ok under a trace of its own, closed done,
\* get_exec_nodes_for_trace returns one node per dispatched tool and
\* get_exec_edges_for_trace as many edges as there are dispatch pairs.
TraceCompleteness ==
    \A i \in Calls :
        (/\ call[i].pc = "done"
         /\ call[i].ret.status = "ok"
         /\ TraceUsedOnce(i)
         /\ exec_trace[call[i].trace_id].status = "done")
        => /\ Cardinality(get_exec_nodes_for_trace(call[i].trace_id))
                = Len(call[i].ret.steps)
           /\ Cardinality(get_exec_edges_for_trace(call[i].trace_id))
                = DispatchPairs(call[i])

AgentOutcomeStatus(outcome) ==
    CASE outcome = "return"  -> {"ok", "error"}
      [] outcome = "timeout" -> {"timeout"}
      [] OTHER               -> {"error"}

\* C6: while execute runs, the call's tool_call and exec_node rows are both
\* in state running; once run has returned, both rows hold the returned
\* result's status, which is ok, error or timeout according to how execute
\* ended, and neither is left running.
WrapperPersistsStatus ==
    \A r \in Runners :
        /\ agent[r].pc = "execute" =>
              /\ tool_call[agent[r].call_id].status = "running"
              /\ exec_node[agent[r].exec_node_id].state = "running"
              /\ exec_node[agent[r].exec_node_id].call_id = agent[r].call_id
        /\ agent[r].pc = "returned" =>
              /\ agent[r].result.status \in AgentOutcomeStatus(agent[r].outcome)
              /\ tool_call[agent[r].call_id].status = agent[r].result.status
              /\ exec_node[agent[r].exec_node_id].state = agent[r].result.status
              /\ agent[r].result.status # "running"

\* C6 witness: one run has returned after a timeout and another after an
\* exception, each leaving its two rows in a final state.
WrapperPersistsStatusWitness ==
    \E r1, r2 \in Runners :
        /\ agent[r1].pc = "returned" /\ agent[r1].outcome = "timeout"
        /\ tool_call[agent[r1].call_id].status = "timeout"
        /\ agent[r2].pc = "returned" /\ agent[r2].outcome = "raise"
        /\ exec_node[agent[r2].exec_node_id].state = "error"

\* C7: when execute returns outputs whose serialized length exceeds
\* max_output_bytes, the result is status error, error type
\* max_output_bytes_exceeded, outputs a preview of at most 500 characters;
\* at or below the cap the result is status ok with the outputs unchanged.
OutputCapEnforced ==
    \A r \in Runners :
        (agent[r].pc = "returned" /\ agent[r].outcome = "return") =>
            IF agent[r].nbytes > DefaultMaxOutputBytes
            THEN /\ agent[r].result.status = "error"
                 /\ agent[r].result.error = "max_output_bytes_exceeded"
                 /\ agent[r].result.outputs.kind = "preview"
                 /\ agent[r].result.outputs.bytes <= PreviewChars
            ELSE /\ agent[r].result.status = "ok"
                 /\ agent[r].result.error = "none"
                 /\ agent[r].result.outputs =
                        [kind |-> "full", bytes |-> agent[r].nbytes]

\* C7 witness: one run returned outputs one byte over the cap and another
\* outputs of exactly the cap.
OutputCapEnforcedWitness ==
    \E r1, r2 \in Runners :
        /\ agent[r1].pc = "returned" /\ agent[r1].outcome = "return"
        /\ agent[r1].nbytes = DefaultMaxOutputBytes + 1
        /\ agent[r1].result.outputs.kind = "preview"
        /\ agent[r2].pc = "returned" /\ agent[r2].outcome = "return"
        /\ agent[r2].nbytes = DefaultMaxOutputBytes
        /\ agent[r2].result.status = "ok"

FatalSteps == {"doc_parse", "asr", "text_embed"}

\* the step in which the dispatch call i awaits ends with a status in S
DispatchEndsWith(i, tools, S) ==
    /\ call[i].pc = "exec"
    /\ call[i].cur.tool_name \in tools
    /\ tool_call'[call[i].cur.call_id].status \in S

\* C8: in the doc_parse and asr pipelines, the step in which doc_parse, asr
\* or text_embed ends with status error or timeout dispatches no further
\* tool, commits no card, closes the trace with status error and makes
\* ingest_blob return status error; error and timeout are treated alike.
FatalStepStopsPipeline ==
    [][\A i \in Calls :
          (/\ call[i].pipeline \in SequentialPipelines
           /\ DispatchEndsWith(i, FatalSteps, {"error", "timeout"}))
          => /\ call'[i].pc = "done"
             /\ call'[i].ret.status = "error"
             /\ call'[i].ret.memory_id = NULL
             /\ exec_trace'[call[i].trace_id].status = "error"
             /\ Len(tool_call') = Len(tool_call)
             /\ memory_card' = memory_card]_vars

\* C8 witness: a sequential ingest has returned error after its text_embed
\* step timed out, with the trace closed error and no third dispatch.
FatalStepStopsPipelineWitness ==
    \E i \in Calls :
        /\ call[i].pc = "done"
        /\ call[i].pipeline \in SequentialPipelines
        /\ call[i].ret.status = "error"
        /\ Len(call[i].ret.steps) = 2
        /\ call[i].ret.steps[2] = [tool_name |-> "text_embed", status |-> "timeout"]
        /\ exec_trace[call[i].trace_id].status = "error"
        /\ Len(tool_call) = 2

\* C9: in the doc_parse pipeline, the step in which summarizer, extractor or
\* graph_builder ends with status error or timeout either dispatches the next
\* tool or commits a memory card, closes the trace done and returns ok.
NonFatalStepsContinue ==
    [][\A i \in Calls :
          (/\ call[i].pipeline = "doc_parse"
           /\ DispatchEndsWith(i, {"summarizer", "extractor", "graph_builder"},
                               {"error", "timeout"}))
          => \/ call'[i].pc = "exec"
             \/ /\ call'[i].pc = "done"
                /\ call'[i].ret.status = "ok"
                /\ Len(memory_card') = Len(memory_card) + 1
                /\ exec_trace'[call[i].trace_id].status = "done"]_vars

\* C10: no tool is dispatched for a file whose size exceeds the byte cap,
\* whatever the pipeline.
OversizeRunsNoTool ==
    \A i \in Calls :
        call[i].pc \in {"exec", "gather", "gathering"}
        => call[i].size_bytes <= EG_MAX_FILE_BYTES

\* file_state holds for p the (mtime_ns, size) the file has on disk now
SameVersion(p) ==
    /\ file_state[p] # NoFileState
    /\ file_state[p].mtime_ns = disk[p].mtime_ns
    /\ file_state[p].size_bytes = disk[p].size_bytes

\* C11: when a scan visits a file whose file_state row has the same
\* (mtime_ns, size) as the file on disk, _process_file returns at its first
\* step: no file_state, source or blob row is written, no job is enqueued,
\* no trace is started, and no writing step is entered.
UnchangedFileNoWrite ==
    [][(/\ scan.pc = "idle"
        /\ disk' = disk
        /\ scan'.path \in Paths
        /\ SameVersion(scan'.path))
       => (/\ file_state' = file_state
           /\ source' = source
           /\ blob' = blob
           /\ jobs' = jobs
           /\ exec_trace' = exec_trace
           /\ scan'.pc = "idle")]_vars

\* a file that went through the whole of _process_file was visited again
\* unchanged, and the visit returned at once
UnchangedFileNoWriteWitness ==
    /\ scan.pc = "idle"
    /\ scan.outcome = "unchanged"
    /\ SameVersion(scan.path)
    /\ Len(jobs) = 1
    /\ Len(blob) = 1

\* an ingest_blob job for the version file_state records for p
JobForRecorded(p) ==
    \E k \in 1..Len(jobs) :
        /\ jobs[k].type = "ingest_blob"
        /\ jobs[k].payload.path = p
        /\ jobs[k].payload.sha256 = file_state[p].sha256
        /\ jobs[k].payload.size_bytes = file_state[p].size_bytes

\* C12: whenever the watcher is between files and file_state records the
\* version a file has on disk (so that every later visit skips it), an
\* ingest_blob job for that version has been enqueued.
RecordedVersionHasJob ==
    \A p \in Paths :
        (scan.pc = "idle" /\ SameVersion(p)) => JobForRecorded(p)


\* rows the chat of trace trace_id left behind
ToolCallsOf(trace_id) ==
    {k \in 1..Len(tool_call) : tool_call[k].trace_id = trace_id}
ExecNodesOf(trace_id) ==
    {k \in 1..Len(exec_node) : exec_node[k].call_id \in ToolCallsOf(trace_id)}
TurnsOf(trace_id) ==
    {k \in 1..Len(conversation_turn) :
        conversation_turn[k].trace_id = trace_id}
CitationsOf(trace_id) ==
    {k \in 1..Len(chat_citation) : chat_citation[k].turn_id \in TurnsOf(trace_id)}

\* the message is longer than 50 000 characters or holds a null byte
MustReject(user_text) == user_text.len > 50000 \/ user_text.nul

\* C13: a chat whose message is longer than 50 000 characters or holds a
\* null byte never gets past the security check: it returns status rejected,
\* its trace is persisted with status rejected, and no tool_call, exec_node,
\* conversation_turn or chat_citation row exists for it; any other message,
\* one of exactly 50 000 characters included, is not rejected.
ChatRejection ==
    chat.pc # "idle" =>
        IF MustReject(chat.user_text)
        THEN /\ chat.pc = "done"
             /\ chat.ret.status = "rejected"
             /\ exec_trace[chat.trace_id].status = "rejected"
             /\ ToolCallsOf(chat.trace_id) = {}
             /\ ExecNodesOf(chat.trace_id) = {}
             /\ conversation_turn = <<>>
             /\ chat_citation = <<>>
        ELSE chat.pc = "done" => chat.ret.status = "ok"

\* a message with a null byte, of a length within the limit, was rejected
ChatRejectionWitness ==
    /\ chat.pc = "done"
    /\ chat.user_text.nul
    /\ chat.user_text.len = 50000
    /\ chat.ret.status = "rejected"

\* C14: every citation chat returns, and every chat_citation row persisted
\* for the turn, names a memory_id of the evidence list built for the turn,
\* and at most 8 citations are returned.
CitationsGrounded ==
    (chat.pc = "done" /\ chat.ret.status = "ok") =>
        LET ids == {chat.ret.evidence[k] : k \in 1..Len(chat.ret.evidence)}
        IN /\ Len(chat.ret.citations) <= 8
           /\ \A k \in 1..Len(chat.ret.citations) : chat.ret.citations[k] \in ids
           /\ \A k \in CitationsOf(chat.trace_id) :
                  chat_citation[k].memory_id \in ids
           /\ Cardinality(CitationsOf(chat.trace_id)) = Len(chat.ret.citations)

\* the model cited ten memories, one of them outside the nine of the
\* evidence list; chat returned the first eight
CitationsGroundedWitness ==
    /\ chat.pc = "done"
    /\ chat.ret.status = "ok"
    /\ Len(chat.parsed) = 10
    /\ \E k \in 1..Len(chat.parsed) :
           \A j \in 1..Len(chat.ret.evidence) :
               chat.parsed[k] # chat.ret.evidence[j]
    /\ Len(chat.ret.evidence) = 9
    /\ Len(chat.ret.citations) = 8

\* the insufficient-evidence message with any of the issue lists a verifier
\* of the model gives
AbstainAnswers ==
    {AbstainAnswer(is) :
        is \in {<<>>, <<"No evidence available.">>,
                <<"No evidence available to verify against.">>,
                <<"Answer contains no citations to evidence.">>,
                <<"claim 2 is unsupported", "wrong date">>}}

\* C15: with an empty memory, a chat that is not rejected returns verdict
\* abstain and the answer "I don't have enough evidence ...", and persists
\* no chat_citation row.
EmptyMemoryAbstains ==
    (chat.pc = "done" /\ chat.ret.status = "ok" /\ memory_card = <<>>) =>
        /\ chat.ret.verdict = "abstain"
        /\ chat.ret.answer \in AbstainAnswers
        /\ chat_citation = <<>>


\* C16: expand returns at most max_nodes distinct nodes and at most
\* max_edges edges, whatever the graph, the seeds, the direction and the
\* number of hops (1 or 2).
ExpandWithinCaps ==
    (fn.name = "expand" /\ fn.pc = "done") =>
        /\ Cardinality(fn.visited_nodes) <= fn.max_nodes
        /\ Len(fn.collected_edges) <= fn.max_edges

\* the edge of graph_edge with the given id
EdgeById(edge_id) == CHOOSE e \in graph_edge : e.edge_id = edge_id

\* path is a walk of edges of the graph from a seed to target, each edge
\* taken in either direction
ConnectedFromSeed(path, seeds, target) ==
    /\ \A k \in 1..Len(path) : \E e \in graph_edge : e.edge_id = path[k]
    /\ \E walk \in [1..(Len(path) + 1) -> GraphNodes] :
          /\ walk[1] \in seeds
          /\ walk[Len(path) + 1] = target
          /\ \A k \in 1..Len(path) :
                {walk[k], walk[k + 1]} =
                    {EdgeById(path[k]).from_node_id,
                     EdgeById(path[k]).to_node_id}

\* C17: every node expand returns that is not a seed has an entry in
\* paths, of at most hops edge ids, and the edges form a connected path
\* from a seed to the node.
ExpandPathsBounded ==
    (fn.name = "expand" /\ fn.pc = "done") =>
        \A n \in fn.visited_nodes \ fn.seed_node_ids :
            /\ fn.paths[n] # NoPath
            /\ Len(fn.paths[n]) <= fn.hops
            /\ ConnectedFromSeed(fn.paths[n], fn.seed_node_ids, n)


\* the five fields that identify an edge
EdgeKey(r) ==
    <<r.from_node_id, r.edge_type, r.to_node_id, r.valid_from, r.valid_to>>

\* C18: edge_id is a function of (from_node_id, edge_type, to_node_id,
\* valid_from, valid_to) over everything the two writers store, so that an
\* edge upserted again is not stored a second time: no two rows of
\* graph_edge carry the same five fields.
EdgeStoredOnce ==
    \A r1, r2 \in graph_edge :
        EdgeKey(r1) = EdgeKey(r2) => r1.edge_id = r2.edge_id


\* C19: every result of hybrid_retrieve has final_score between 0.18 and
\* 1.0, and each of its signal scores (fts, semantic, graph, recency) between
\* 0 and 1, whatever the stores report and whatever the source boost.
ScoresInRange ==
    (fn.name = "hybrid_retrieve" /\ fn.pc = "done") =>
        \A k \in 1..Len(fn.results) :
            LET r == fn.results[k] IN
            /\ r.final_score >= 1800 /\ r.final_score <= 10000
            /\ \A x \in {r.signals.fts, r.signals.semantic, r.signals.graph,
                         r.signals.recency} : x >= 0 /\ x <= 100

\* a returned card whose Qdrant score was above 1 and whose weighted sum was
\* above 1 before clamping
ScoresInRangeWitness ==
    /\ fn.name = "hybrid_retrieve" /\ fn.pc = "done"
    /\ Len(fn.results) = 1
    /\ fn.score = 120
    /\ fn.results[1].signals.semantic = 100
    /\ fn.results[1].final_score = 10000
    /\ RawFinal(fn.candidates[1], fn.results[1].signals.recency,
                fn.source_type) > 10000


\* C20: the card insert_memory_card stores has a summary of at most 400
\* characters, a content_text of at most 200 000 characters, and a summary
\* that is not a prefix of its content_text.
StoredCardCapped ==
    (fn.name = "insert_memory_card" /\ fn.pc = "done") =>
        \A k \in 1..Len(memory_card) :
            LET c == memory_card[k] IN
            /\ Len(c.summary) <= 400
            /\ c.content_text # NoText => Len(c.content_text) <= 200000
            /\ (Truthy(c.summary) /\ Truthy(c.content_text))
                   => ~IsPrefixOf(c.summary, c.content_text)


\* C21: each of the six spellings of "dog", given with entity_type "Topic",
\* is canonicalized to "dog", and so each gets the one entity node id of
\* Topic|dog.
DogTopic ==
    /\ fn.name = "canonicalize_entity_name" /\ fn.pc = "done"
    /\ fn.input \in DogNames
    /\ fn.entity_type = <<"T", "o", "p", "i", "c">>
CanonicalizationStable ==
    DogTopic => /\ fn.result = Dog
                /\ fn.node_id = _canonical_node_id("Topic", Dog)
CanonicalizationStableWitness ==
    /\ DogTopic
    /\ fn.input = <<"t", "h", "e", " ", "D", "o", "g", "s", "!">>
    /\ fn.result = Dog

\* the tools of the doc pipeline, in the order the claim gives them
DocPipelineTools ==
    <<"doc_parse", "summarizer", "extractor", "text_embed", "graph_builder">>

\* C22: an ingest through the doc pipeline that returned ok dispatched
\* doc_parse, summarizer, extractor, text_embed and graph_builder, each once
\* and in that order, and its trace (closed done) has an exec-node of each of
\* the five tools.
DocPipelineFiveTools ==
    \A i \in Calls :
        (/\ call[i].pc = "done"
         /\ call[i].pipeline = "doc_parse"
         /\ call[i].ret.status = "ok")
        => /\ [k \in 1..Len(call[i].ret.steps) |->
                  call[i].ret.steps[k].tool_name] = DocPipelineTools
           /\ exec_trace[call[i].trace_id].status = "done"
           /\ \A k \in 1..Len(DocPipelineTools) :
                  \E n \in get_exec_nodes_for_trace(call[i].trace_id) :
                      tool_call[exec_node[n].call_id].tool_name
                          = DocPipelineTools[k]


\* C23: with use_graph and hops = 1, a card that graph expansion reaches at
\* hop 1 through an entity it shares with a seed, and that neither the FTS
\* search nor the semantic search returned, is in the results of
\* hybrid_retrieve, tagged graph_expand and with a non-empty
\* graph_path.via_entity_ids.
GraphNeighbourReturned ==
    (/\ fn.name = "hybrid_retrieve" /\ fn.pc = "done"
     /\ fn.rank = NoHit /\ fn.score = NoHit /\ fn.hop = 1)
    => \E k \in 1..Len(fn.results) :
           /\ "graph_expand" \in fn.results[k].reasons
           /\ fn.results[k].graph_path # NoGraphPath
           /\ fn.results[k].graph_path.via_entity_ids # <<>>


\* the name a graph_node row was made from
NodeName(r) == r.props.label
NodeTypeChars(node_type) ==
    IF node_type = "Entity" THEN <<"E", "n", "t", "i", "t", "y">>
    ELSE <<"O", "t", "h", "e", "r">>

\* C24: every entity node in graph_node has the node id ent: + sha1 of
\* normalized type | canonical name of the mention it was made from, and so
\* no two entity nodes have the same normalized type and canonical name;
\* every memory node has the node id mem: + memory_id.
EntityNodeIdCanonical ==
    /\ \A r \in graph_node :
           r.node_id[1] = "ent" =>
               r.node_id =
                   _canonical_node_id(
                       normalize_entity_type(NodeTypeChars(r.node_type)),
                       canonicalize_entity_name(NodeName(r),
                                                NodeTypeChars(r.node_type)))
    /\ \A r1, r2 \in graph_node :
           (/\ r1.node_id[1] = "ent" /\ r2.node_id[1] = "ent"
            /\ normalize_entity_type(NodeTypeChars(r1.node_type))
                   = normalize_entity_type(NodeTypeChars(r2.node_type))
            /\ canonicalize_entity_name(NodeName(r1),
                                        NodeTypeChars(r1.node_type))
                   = canonicalize_entity_name(NodeName(r2),
                                              NodeTypeChars(r2.node_type)))
           => r1.node_id = r2.node_id
    /\ \A r \in graph_node :
           r.node_type = "MemoryCard" =>
               /\ r.node_id[1] = "mem"
               /\ r.node_id[2] \in 1..MaxGraphIngests


\* C25: however ingest_blob calls for one blob_id interleave, at most one
\* memory card referencing that blob_id is committed.
OneCardPerBlobConcurrent ==
    \A b \in BlobIds : Cardinality(CardsOfBlob(memory_card, b)) <= 1


\* C26: with the worker running, every job that is claimed (status running)
\* is eventually completed as done or error, also when an exception escapes
\* the handler or the completion write, or when the worker restarts.
ClaimedJobEventuallyCompleted ==
    \A j \in 1..MaxJobs :
        (j <= Len(jobs) /\ jobs[j].status = "running")
            ~> (j <= Len(jobs) /\ jobs[j].status \in {"done", "error"})


\* the step in which worker w leaves the job it claimed: its last
\* complete_job call has returned or raised
WorkerLeavesJob(w) == worker[w].pc = "complete" /\ worker'[w].pc = "idle"

\* C28: a job's status only moves queued -> running -> done or error;
\* complete_job changes only a running job, and a done or error job is never
\* modified or claimed again.
JobStatusOnlyForward ==
    [][\A j \in 1..Len(jobs) :
         /\ jobs[j].status = "queued"
                => jobs'[j].status \in {"queued", "running"}
         /\ jobs[j].status = "running"
                => jobs'[j].status \in {"running", "done", "error"}
         /\ jobs[j].status \in {"done", "error"} => jobs'[j] = jobs[j]]_vars

\* C29: a claimed job of unknown type is completed as error and no handler
\* runs; a job whose handler raises is completed as error with the text of
\* the exception; a job whose handler returns is completed as done.
CompletionFollowsHandler ==
    [][\A w \in Workers :
         WorkerLeavesJob(w) =>
             LET j == worker[w].job
                 r == worker[w] IN
             /\ r.row.type \notin JobHandlers
                    => ~r.handled /\ jobs'[j].status = "error"
             /\ r.raised
                    => /\ jobs'[j].status = "error"
                       /\ jobs'[j].error_text = r.error
             /\ r.handled /\ ~r.raised => jobs'[j].status = "done"]_vars

\* C30: when ingest_blob returned status error to the handler, the
\* ingest_blob job is completed as error, not done.
FailedIngestCompletesAsError ==
    [][\A w \in Workers :
         (WorkerLeavesJob(w) /\ worker[w].result = "error")
             => jobs'[worker[w].job].status = "error"]_vars


\* C27: every trace created by chat is in a terminal status (done, error or
\* rejected) when the call has returned or raised, also when the exception
\* is raised while the retrieval request is built.
ChatTraceClosedAtExit ==
    chat.pc \in {"done", "raised"}
        => exec_trace[chat.trace_id].status \in Terminal


\* C31: claim_job returns the queued job with the earliest creation time: the
\* row it flips is queued and the oldest queued one, it is left running with
\* attempts exactly one greater than when the call selected it, and no other
\* row changes.
ClaimJobFifo ==
    [][\A w \in Workers :
         (worker[w].pc = "update" /\ worker'[w].pc = "handling") =>
             LET j == worker[w].job IN
             /\ jobs[j].status = "queued"
             /\ j = OldestQueued
             /\ jobs'[j].status = "running"
             /\ jobs'[j].attempts = worker[w].row.attempts + 1
             /\ \A k \in 1..Len(jobs) : k # j => jobs'[k] = jobs[k]]_vars


\* C32: the wrapper's final update of the tool_call row and of the exec_node
\* row is atomic: in no state that a reader of the tables can see is one of
\* the two in its final status while the other is still running.
FinalUpdateAtomic ==
    \A n \in 1..Len(exec_node) :
        (exec_node[n].state = "running")
            <=> (tool_call[exec_node[n].call_id].status = "running")


\* rows of tool_call made for trace_id by the tools in names
ToolRows(trace_id, names) ==
    {k \in 1..Len(tool_call) :
        tool_call[k].trace_id = trace_id /\ tool_call[k].tool_name \in names}

\* exec_node rows of the tool_call rows in calls
NodesOfCalls(calls) ==
    {n \in 1..Len(exec_node) : exec_node[n].call_id \in calls}

ImageDownstreamTools ==
    {"image_caption", "summarizer", "extractor", "text_embed", "graph_builder"}

\* C33: in the image pipeline OCR and vision_embed are dispatched together
\* with no predecessor, no exec_edge joins the two, and no downstream tool is
\* dispatched before both have completed.
ImageFanOut ==
    \A t \in DOMAIN exec_trace :
        LET ocr == ToolRows(t, {"ocr"})
            vis == ToolRows(t, {"vision_embed"})
            roots == NodesOfCalls(ocr \cup vis)
        IN /\ (ocr = {}) <=> (vis = {})
           /\ \A e \in 1..Len(exec_edge) :
                  exec_edge[e].to_exec_node_id \notin roots
           /\ ToolRows(t, ImageDownstreamTools) # {}
                  => /\ ocr # {} /\ vis # {}
                     /\ \A k \in ocr \cup vis : tool_call[k].status # "running"

\* both gathered dispatches have ended, one of them in a timeout, and the
\* pipeline has gone on to the extractor with an edge from the OCR node
ImageFanOutWitness ==
    /\ call[1].pc = "exec"
    /\ call[1].cur.tool_name = "extractor"
    /\ call[1].sr_ocr.status = "ok"
    /\ call[1].sr_vision.status = "timeout"
    /\ \E e \in 1..Len(exec_edge) :
           exec_edge[e].from_exec_node_id = call[1].sr_ocr.exec_node_id


\* the OCR StepResult passes one of the two gates of lines 432-459:
\* is_meaningful_ocr, or at least 20 characters of text
OcrPassesGate(sr) == sr.status = "ok" /\ sr.data \in {"meaningful", "low"}

\* the steps of a returned ingest name tool_name with status
HasStep(steps, tool_name, status) ==
    \E k \in 1..Len(steps) :
        steps[k].tool_name = tool_name /\ steps[k].status = status

\* C34: in the image pipeline image_caption is dispatched exactly when OCR
\* passes neither quality gate; once decided, base_text_source is one of ocr,
\* caption, filename; and when the caption output is empty, base_text is
\* "Image: <basename>" with source filename.
CaptionFallback ==
    [][\A i \in Calls :
         /\ (call[i].pc = "gathering" /\ call'[i].pc # "gathering")
                => ((call'[i].cur.tool_name = "image_caption")
                        <=> ~OcrPassesGate(call'[i].sr_ocr))
         /\ (call'[i].cur.tool_name = "image_caption"
                 /\ call[i].cur.tool_name # "image_caption")
                => call[i].pc = "gathering"
         /\ (call[i].pc \in {"gathering", "exec"} /\ call'[i].pc = "done"
                 /\ Len(memory_card') > Len(memory_card))
                => LET card == memory_card'[Len(memory_card')] IN
                   /\ card.base_text_source \in {"ocr", "caption", "filename"}
                   /\ (HasStep(call'[i].ret.steps, "image_caption", "ok")
                           /\ card.caption_text = NullText)
                          => /\ card.base_text_source = "filename"
                             /\ card.content_text = "Image: <basename>"]_vars


\* the call has returned from the image pipeline
ImageReturned(i) == call[i].pc = "done" /\ call[i].ret.pipeline = "ocr"

\* the OCR dispatch or the vision_embed dispatch of the returned call
\* succeeded
BranchSucceeded(i) ==
    \/ HasStep(call[i].ret.steps, "ocr", "ok")
    \/ HasStep(call[i].ret.steps, "vision_embed", "ok")

\* C35 as stated: an image ingest returns status ok if and only if the OCR
\* dispatch or the vision_embed dispatch succeeded, and status error
\* otherwise.
ImageStatusIffBranchOk ==
    \A i \in Calls :
        ImageReturned(i) =>
            /\ call[i].ret.status \in {"ok", "error"}
            /\ (call[i].ret.status = "ok") <=> BranchSucceeded(i)

\* the card the returned call committed is the oversized placeholder
PlaceholderCard(i) ==
    \E k \in 1..Len(memory_card) :
        /\ memory_card[k].trace_id = call[i].trace_id
        /\ memory_card[k].card_type = "file_capture_placeholder"

\* C35, amended: an image within the size cap returns status ok if and only
\* if its OCR dispatch or its vision_embed dispatch succeeded, and status
\* error otherwise; an oversized image returns status ok with no dispatch.
ImageStatusFollowsBranches ==
    \A i \in Calls :
        ImageReturned(i) =>
            IF PlaceholderCard(i)
            THEN call[i].ret.status = "ok" /\ call[i].ret.steps = <<>>
            ELSE /\ call[i].ret.status \in {"ok", "error"}
                 /\ (call[i].ret.status = "ok") <=> BranchSucceeded(i)

\* an image whose OCR timed out and whose vision_embed succeeded returned ok
ImageStatusFollowsBranchesWitness ==
    /\ ImageReturned(1)
    /\ call[1].ret.status = "ok"
    /\ HasStep(call[1].ret.steps, "ocr", "timeout")
    /\ HasStep(call[1].ret.steps, "vision_embed", "ok")


\* position of the first step of steps that names tool_name, 0 if none
StepIndex(steps, tool_name) ==
    LET at == {k \in 1..Len(steps) : steps[k].tool_name = tool_name} IN
    IF at = {} THEN 0 ELSE CHOOSE k \in at : \A m \in at : k <= m

\* an exec_edge leads from a node of one of the trace's from_tool dispatches
\* to a node of one of its to_tool dispatches
EdgeBetweenTools(trace_id, from_tool, to_tool) ==
    \E e \in 1..Len(exec_edge) :
        /\ exec_edge[e].from_exec_node_id
               \in NodesOfCalls(ToolRows(trace_id, {from_tool}))
        /\ exec_edge[e].to_exec_node_id
               \in NodesOfCalls(ToolRows(trace_id, {to_tool}))

FinalAnswerFollowsVerdict ==
    (chat.pc = "done" /\ chat.ret.status = "ok") =>
        LET out     == chat.ret.verify_outputs
            verdict == IF out = NoVerdict THEN "pass" ELSE out.verdict
        IN /\ chat.ret.verdict = verdict
           /\ (verdict = "revise" /\ out.revised_answer # "")
                  => chat.ret.answer = out.revised_answer
           /\ verdict = "abstain"
                  => chat.ret.answer = AbstainAnswer(out.issues)
           /\ (verdict \notin {"revise", "abstain"}
                   \/ (verdict = "revise" /\ out.revised_answer = ""))
                  => chat.ret.answer = chat.ret.weave_answer
           /\ \E k \in 1..Len(conversation_turn) :
                  /\ conversation_turn[k].trace_id = chat.trace_id
                  /\ conversation_turn[k].assistant_text = chat.ret.answer
                  /\ conversation_turn[k].verdict = chat.ret.verdict
           /\ \A k \in 1..Len(conversation_turn) :
                  conversation_turn[k].trace_id = chat.trace_id
                      => conversation_turn[k].assistant_text = chat.ret.answer

\* the verifier said revise without a revised answer: the weaver's answer
\* was returned and stored with verdict revise
FinalAnswerFollowsVerdictWitness ==
    /\ chat.pc = "done"
    /\ chat.ret.status = "ok"
    /\ chat.ret.verdict = "revise"
    /\ chat.ret.verify_outputs.revised_answer = ""
    /\ chat.ret.answer = "llm text [mid]"
    /\ Len(conversation_turn) = 1


(***************************************************************************)
(*  GRAPH COMPACTION  (scripts/graph_compact.py)                           *)
(***************************************************************************)
MaxCompactNodes == 3

\* _TYPE_PRIORITY
_TYPE_PRIORITY ==
    [Person |-> 10, Org |-> 9, Place |-> 8, Project |-> 7, Technology |-> 6,
     Component |-> 5, Topic |-> 4, Other |-> 1]

\* _TYPE_PRIORITY.get(t, 0)
TypePriority(t) ==
    IF t \in DOMAIN _TYPE_PRIORITY THEN _TYPE_PRIORITY[t] ELSE 0

\* the characters of the normalised types the nodes below reach, as they
\* are stored in graph_node.node_type
TypeText ==
    [Person |-> <<"P", "e", "r", "s", "o", "n">>, Org |-> <<"O", "r", "g">>,
     Topic |-> <<"T", "o", "p", "i", "c">>,
     Other |-> <<"O", "t", "h", "e", "r">>]

\* node_id LIKE 'ent:%'
IsEntityId(node_id) == node_id[1] = "ent"

\* float(props.get("confidence", 0)), in hundredths
Confidence(props) == props.confidence

\* lines 65-72: the stored canonical when there is one, else the canonical
\* form of name (raw_name is on none of the nodes below)
CompactCanon(node_type, props) ==
    LET norm_type == normalize_entity_type(node_type)
    IN IF props.canonical # NoText /\ props.canonical # <<>>
       THEN props.canonical
       ELSE canonicalize_entity_name(
                IF props.name = NoText THEN <<>> ELSE props.name,
                TypeText[norm_type])

\* lines 64-82: the rows that have a canonical form, in the order of rows
CompactEntries(rows) ==
    SelectSeq([k \in 1..Len(rows) |->
                  [node_id |-> rows[k].node_id,
                   node_type |-> normalize_entity_type(rows[k].node_type),
                   props |-> rows[k].props,
                   canon |-> CompactCanon(rows[k].node_type, rows[k].props)]],
              LAMBDA n : n.canon # <<>>)

\* the keys of groups, in the order of their first entry
CompactCanons(entries) ==
    LET F[k \in 0..Len(entries)] ==
            IF k = 0 THEN <<>>
            ELSE IF \E j \in 1..Len(F[k - 1]) : F[k - 1][j] = entries[k].canon
                 THEN F[k - 1]
                 ELSE Append(F[k - 1], entries[k].canon)
    IN F[Len(entries)]

\* groups[canon]
CompactGroup(entries, canon) ==
    SelectSeq(entries, LAMBDA n : n.canon = canon)

\* lines 92-95: max(..., key=priority) is the first type of the highest
\* priority
BestType(nodes) ==
    LET k == CHOOSE k \in 1..Len(nodes) :
                 /\ \A j \in 1..Len(nodes) :
                        TypePriority(nodes[j].node_type)
                            <= TypePriority(nodes[k].node_type)
                 /\ \A j \in 1..(k - 1) :
                        TypePriority(nodes[j].node_type)
                            < TypePriority(nodes[k].node_type)
    IN nodes[k].node_type

\* nodes.sort(key=-confidence): a stable sort, highest confidence first
SortByConfidence(nodes) ==
    LET pos(k) ==
            1 + Cardinality(
                    {j \in 1..Len(nodes) :
                        \/ Confidence(nodes[j].props)
                               > Confidence(nodes[k].props)
                        \/ /\ Confidence(nodes[j].props)
                                  = Confidence(nodes[k].props)
                           /\ j < k})
    IN [p \in 1..Len(nodes) |->
           nodes[CHOOSE k \in 1..Len(nodes) : pos(k) = p]]

\* the primary is the node of the lowest confidence
PickPrimaryLowest(nodes, target_id) ==
    LET k == CHOOSE k \in 1..Len(nodes) :
                 \A j \in 1..Len(nodes) :
                     \/ Confidence(nodes[k].props)
                            < Confidence(nodes[j].props)
                     \/ /\ Confidence(nodes[k].props)
                               = Confidence(nodes[j].props)
                        /\ k <= j
    IN [primary |-> nodes[k], nodes |-> nodes]

\* lines 101-108: the node whose id is target_id, else the first node after
\* the sort
PickPrimary(nodes, target_id) ==
    IF \E k \in 1..Len(nodes) : nodes[k].node_id = target_id
    THEN [primary |->
              nodes[CHOOSE k \in 1..Len(nodes) :
                        /\ nodes[k].node_id = target_id
                        /\ \A j \in 1..(k - 1) :
                               nodes[j].node_id # target_id],
          nodes |-> nodes]
    ELSE [primary |-> SortByConfidence(nodes)[1],
          nodes |-> SortByConfidence(nodes)]

\* UPDATE graph_edge SET col = primary_id for each edge whose col is dup_id
RepointEdges(edges, col, dup_id, primary_id) ==
    {IF e[col] = dup_id THEN [e EXCEPT ![col] = primary_id] ELSE e :
         e \in edges}

\* lines 141-150
MergeProps(primary_props, dup_props, canon) ==
    LET old_name == IF primary_props.name = NoText THEN <<>>
                    ELSE primary_props.name
        dup_name == IF dup_props.name = NoText THEN <<>> ELSE dup_props.name
    IN [name |-> IF Len(old_name) >= Len(dup_name) THEN old_name
                 ELSE dup_name,
        canonical |-> canon,
        confidence |-> IF Confidence(primary_props) >= Confidence(dup_props)
                       THEN Confidence(primary_props)
                       ELSE Confidence(dup_props)]

\* lines 118-164: one duplicate is merged into the primary; d holds nodes,
\* edges, stats and the props of the primary so far
MergeDuplicate(d, dup, primary_id, best_type, canon, dry_run) ==
    LET from_rows == {e \in d.edges : e.from_node_id = dup.node_id}
        edges1 == IF dry_run THEN d.edges
                  ELSE RepointEdges(d.edges, "from_node_id", dup.node_id,
                                    primary_id)
        to_rows == {e \in edges1 : e.to_node_id = dup.node_id}
        edges2 == IF dry_run THEN edges1
                  ELSE RepointEdges(edges1, "to_node_id", dup.node_id,
                                    primary_id)
        merged_props == MergeProps(d.props, dup.props, canon)
        nodes1 == {IF n.node_id = primary_id
                   THEN [n EXCEPT !.node_type = TypeText[best_type],
                                  !.props = merged_props]
                   ELSE n : n \in d.nodes}
        nodes2 == {n \in nodes1 : n.node_id # dup.node_id}
    IN [nodes |-> IF dry_run THEN d.nodes ELSE nodes2,
        edges |-> edges2,
        props |-> merged_props,
        stats |-> [d.stats EXCEPT
                     !.edges_repointed =
                         @ + Cardinality(from_rows) + Cardinality(to_rows),
                     !.nodes_deleted = @ + 1]]

\* lines 85-164 for one group
MergeGroup(d, nodes, canon, dry_run) ==
    IF Len(nodes) < 2 THEN d
    ELSE LET best_type  == BestType(nodes)
             target_id  == _canonical_node_id(best_type, canon)
             picked     == PickPrimary(nodes, target_id)
             primary_id == picked.primary.node_id
             duplicates == SelectSeq(picked.nodes,
                                     LAMBDA n : n.node_id # primary_id)
             start == [nodes |-> d.nodes, edges |-> d.edges,
                       props |-> picked.primary.props,
                       stats |-> [d.stats EXCEPT !.groups_found = @ + 1]]
             F[k \in 0..Len(duplicates)] ==
                 IF k = 0 THEN start
                 ELSE MergeDuplicate(F[k - 1], duplicates[k], primary_id,
                                     best_type, canon, dry_run)
             end == F[Len(duplicates)]
         IN [nodes |-> end.nodes, edges |-> end.edges, stats |-> end.stats]

NoStats == [groups_found |-> 0, nodes_deleted |-> 0, edges_repointed |-> 0]

\* compact(dry_run) on the rows the SELECT returned
Compact(nodes, edges, rows, dry_run) ==
    LET entries == CompactEntries(rows)
        canons  == CompactCanons(entries)
        F[k \in 0..Len(canons)] ==
            IF k = 0 THEN [nodes |-> nodes, edges |-> edges,
                           stats |-> NoStats]
            ELSE MergeGroup(F[k - 1], CompactGroup(entries, canons[k]),
                            canons[k], dry_run)
    IN F[Len(canons)]

\* python -m scripts.graph_compact entered
CompactCall(dry_run, rows) ==
    [name |-> "compact", pc |-> "call", dry_run |-> dry_run, rows |-> rows,
     result |-> NoStats]

\* compact runs in one transaction and returns
compact ==
    /\ fn.name = "compact" /\ fn.pc = "call"
    /\ LET out == Compact(graph_node, graph_edge, fn.rows, fn.dry_run)
       IN /\ graph_node' = out.nodes
          /\ graph_edge' = out.edges
          /\ fn' = [fn EXCEPT !.pc = "done", !.result = out.stats]
    /\ UNCHANGED <<queueVars, dbVars, agent, call, watchVars, chatVars>>


\* the single memory node the edges below start from
CompactMemNode ==
    [node_id |-> <<"mem", 1>>,
     node_type |-> <<"M", "e", "m", "o", "r", "y", "C", "a", "r", "d">>,
     props |-> [name |-> <<>>, canonical |-> NoText, confidence |-> 0]]

Glass == <<"g", "l", "a", "s", "s">>

\* entity nodes as POST /graph/upsert and graph_builder leave them: ids made
\* from the label or from the canonical form, names that canonicalise to dog
\* or glass or to nothing, confidences in hundredths
CompactNodes ==
    {[node_id |-> BuilderEntId(<<"d", "o", "g", "s">>),
      node_type |-> <<"T", "o", "p", "i", "c">>,
      props |-> [name |-> <<"d", "o", "g", "s">>, canonical |-> NoText,
                 confidence |-> 90]],
     [node_id |-> BuilderEntId(<<"D", "o", "g">>),
      node_type |-> <<"P", "e", "r", "s", "o", "n">>,
      props |-> [name |-> <<"D", "o", "g">>, canonical |-> NoText,
                 confidence |-> 50]],
     [node_id |-> _canonical_node_id("Person", Dog),
      node_type |-> <<"P", "e", "r", "s", "o", "n">>,
      props |-> [name |-> <<"a", " ", "d", "o", "g">>, canonical |-> Dog,
                 confidence |-> 30]],
     [node_id |-> BuilderEntId(<<"t", "h", "e", " ", "D", "o", "g", "s", "!">>),
      node_type |-> <<"x", "y", "z", "z", "y">>,
      props |-> [name |-> <<"t", "h", "e", " ", "D", "o", "g", "s", "!">>,
                 canonical |-> NoText, confidence |-> 90]],
     [node_id |-> BuilderEntId(Glass),
      node_type |-> <<"O", "r", "g">>,
      props |-> [name |-> Glass, canonical |-> NoText, confidence |-> 50]],
     [node_id |-> _canonical_node_id("Topic", Glass),
      node_type |-> <<" ", "t", "o", "p", "i", "c", " ">>,
      props |-> [name |-> NoText, canonical |-> Glass, confidence |-> 90]],
     [node_id |-> BuilderEntId(<<"b", "u", "s">>),
      node_type |-> <<"T", "o", "p", "i", "c">>,
      props |-> [name |-> <<" ", " ">>, canonical |-> NoText,
                 confidence |-> 0]]}

CompactEdge(edge_id, from_node_id, to_node_id, edge_type) ==
    [edge_id |-> <<"given", edge_id>>, from_node_id |-> from_node_id,
     to_node_id |-> to_node_id, edge_type |-> edge_type,
     valid_from |-> NullText, valid_to |-> NullText]

CompactEdges ==
    {CompactEdge("e1", <<"mem", 1>>, BuilderEntId(<<"d", "o", "g", "s">>),
                 "MENTIONS"),
     CompactEdge("e3", BuilderEntId(<<"d", "o", "g", "s">>),
                 BuilderEntId(<<"D", "o", "g">>), "RELATED"),
     CompactEdge("e4",
                 BuilderEntId(<<"t", "h", "e", " ", "D", "o", "g", "s", "!">>),
                 BuilderEntId(Glass), "RELATED")}

\* the orders in which a SELECT without ORDER BY may return the rows of S
RowOrders(S) ==
    {s \in [1..Cardinality(S) -> S] :
        \A i, j \in 1..Cardinality(S) : i # j => s[i] # s[j]}

\* compact is run, dry or not, on any graph of up to MaxCompactNodes entity
\* nodes
InitCompact ==
    \E S \in {T \in SUBSET CompactNodes :
                 Cardinality(T) \in 2..MaxCompactNodes} :
    \E edges \in SUBSET CompactEdges :
    \E rows \in RowOrders(S) : \E dry_run \in BOOLEAN :
        InitAll(<<>>, S \cup {CompactMemNode}, edges,
                CompactCall(dry_run, rows))
SpecCompact == InitCompact /\ [][compact]_vars

EntityNodes(nodes) == {n \in nodes : IsEntityId(n.node_id)}
CanonOfNode(n) == CompactCanon(n.node_type, n.props)

\* the entity nodes of nodes, each with its canonical string
WithCanon(nodes) == {<<n, CanonOfNode(n)>> : n \in EntityNodes(nodes)}

\* the groups compaction merges: two entity nodes or more that share a
\* canonical string
DuplicateGroups(nodes) ==
    LET pairs == WithCanon(nodes)
        CanonGroup(canon) == {p[1] : p \in {q \in pairs : q[2] = canon}}
    IN {G \in {CanonGroup(canon) : canon \in {p[2] : p \in pairs} \ {<<>>}} :
           Cardinality(G) >= 2}

NodePriority(n) == TypePriority(normalize_entity_type(n.node_type))

\* the nodes of G of the highest type priority and, among those, of the
\* highest confidence
ByTypePriority(G) ==
    {n \in G : \A m \in G :
        \/ NodePriority(m) < NodePriority(n)
        \/ /\ NodePriority(m) = NodePriority(n)
           /\ Confidence(m.props) <= Confidence(n.props)}

\* the node of G whose id is the canonical id of the best type, else the
\* nodes of G of the highest confidence
ByCanonicalId(G) ==
    LET best == CHOOSE n \in G : \A m \in G : NodePriority(m) <= NodePriority(n)
        target_id == _canonical_node_id(normalize_entity_type(best.node_type),
                                        CanonOfNode(best))
    IN IF \E n \in G : n.node_id = target_id
       THEN {n \in G : n.node_id = target_id}
       ELSE {n \in G : \A m \in G :
                Confidence(m.props) <= Confidence(n.props)}

NodeIds(nodes) == {n.node_id : n \in nodes}

\* no two entity nodes of nodes share a canonical string
NoSharedCanonical(nodes) ==
    \A p, q \in WithCanon(nodes) :
        (p[1] # q[1] /\ p[2] # <<>>) => p[2] # q[2]

\* a non-dry-run compaction returns in this step
CompactReturns ==
    /\ fn.name = "compact" /\ fn.pc = "call" /\ ~fn.dry_run
    /\ fn'.pc = "done"

\* every edge keeps its id, an end that was a deleted node of G is now the
\* survivor of G, every other end is as it was
EdgesRepointed ==
    LET deleted == NodeIds(graph_node) \ NodeIds(graph_node')
        groups  == DuplicateGroups(graph_node)
        SurvivorOf(node_id) ==
            IF node_id \in deleted
            THEN LET G == CHOOSE H \in groups : node_id \in NodeIds(H)
                 IN CHOOSE id \in NodeIds(G) : id \in NodeIds(graph_node')
            ELSE node_id
    IN /\ graph_edge' =
              {[e EXCEPT !.from_node_id = SurvivorOf(e.from_node_id),
                         !.to_node_id = SurvivorOf(e.to_node_id)] : e \in graph_edge}
       /\ \A e \in graph_edge' :
               e.from_node_id \notin deleted /\ e.to_node_id \notin deleted

\* each group keeps exactly one node and it is one of Selected(G)
GroupsKeep(Selected(_)) ==
    LET kept == NodeIds(graph_node')
    IN \A G \in DuplicateGroups(graph_node) :
           /\ Cardinality(NodeIds(G) \cap kept) = 1
           /\ NodeIds(G) \cap kept \subseteq NodeIds(Selected(G))

SurvivorsTyped ==
    \A G \in DuplicateGroups(graph_node) :
    \A n \in graph_node' :
        n.node_id \in NodeIds(G) =>
            \E m \in G :
                /\ \A k \in G : NodePriority(k) <= NodePriority(m)
                /\ n.node_type = TypeText[normalize_entity_type(m.node_type)]

MaxLoadCalls == 3

\* the two modules with a _load_model, and the threads asyncio.to_thread
\* runs it on: the one of _preload_models and one of a tool call
LoadKinds   == {"text", "vision"}
LoadThreads == {"preload", "worker"}

\* _preload_models loads sentence-transformers, then OpenCLIP
PreloadOrder == <<"text", "vision">>

IdleLoad == [pc |-> "idle", kind |-> "none", ret |-> NULL,
             outcome |-> "none", calls |-> 0]

\* the module globals _model and _model_loaded of each module; constructed
\* counts the instances made, loads_ok holds the instances of the loads that
\* succeeded
LoadCall ==
    [name |-> "_load_model",
     _model |-> [k \in LoadKinds |-> NULL],
     _model_loaded |-> [k \in LoadKinds |-> FALSE],
     constructed |-> [k \in LoadKinds |-> 0],
     loads_ok |-> [k \in LoadKinds |-> {}],
     thread |-> [t \in LoadThreads |-> IdleLoad]]

\* an instance of the model of kind, the n-th one constructed
ModelInstance(kind, n) == IF kind = "text" THEN n ELSE 10 + n

\* except Exception: text_embed_impl leaves _model_loaded alone (lines
\* 70-73), vision_embed_impl sets it (lines 114-117)
FailureCached(kind) == kind = "vision"

\* a thread calls _load_model of kind: if _model_loaded: return _model
load_enter(t, kind) ==
    /\ fn.name = "_load_model"
    /\ fn.thread[t].pc \in {"idle", "returned"}
    /\ IF t = "preload"
       THEN /\ fn.thread[t].calls < Len(PreloadOrder)
            /\ kind = PreloadOrder[fn.thread[t].calls + 1]
       ELSE fn.thread[t].calls < MaxLoadCalls
    /\ fn' = [fn EXCEPT !.thread[t] =
                 IF fn._model_loaded[kind]
                 THEN [pc |-> "returned", kind |-> kind,
                       ret |-> fn._model[kind], outcome |-> "hit",
                       calls |-> @.calls + 1]
                 ELSE [pc |-> "try", kind |-> kind, ret |-> NULL,
                       outcome |-> "none", calls |-> @.calls + 1]]
    /\ UNCHANGED <<graph_node, graph_edge, queueVars, dbVars, agent, call,
                   watchVars, chatVars>>

\* the except clauses: ImportError is cached by both modules, any other
\* exception by vision_embed_impl only; None is returned
LoadFailed(f, t, outcome) ==
    LET kind == f.thread[t].kind
    IN [f EXCEPT
          !._model_loaded[kind] =
              IF outcome = "ImportError" \/ FailureCached(kind) THEN TRUE
              ELSE @,
          !.thread[t] = [@ EXCEPT !.pc = "returned", !.ret = NULL,
                                  !.outcome = outcome]]

\* the import and the constructor: _model = SentenceTransformer(...) or
\* _model, _, _preprocess = open_clip.create_model_and_transforms(...)
load_create(t, outcome) ==
    /\ fn.name = "_load_model"
    /\ fn.thread[t].pc = "try"
    /\ LET kind == fn.thread[t].kind
       IN fn' = IF outcome = "ok"
                THEN [fn EXCEPT
                        !.constructed[kind] = @ + 1,
                        !._model[kind] =
                            ModelInstance(kind, fn.constructed[kind] + 1),
                        !.thread[t].pc = "created"]
                ELSE LoadFailed(fn, t, outcome)
    /\ UNCHANGED <<graph_node, graph_edge, queueVars, dbVars, agent, call,
                   watchVars, chatVars>>

\* the rest of the try block (the dimension is read; the weights are loaded
\* and a dummy image encoded), then _model_loaded = True; return _model
load_finish(t, outcome) ==
    /\ fn.name = "_load_model"
    /\ fn.thread[t].pc = "created"
    /\ LET kind == fn.thread[t].kind
       IN fn' = IF outcome = "ok"
                THEN [fn EXCEPT
                        !._model_loaded[kind] = TRUE,
                        !.loads_ok[kind] = @ \cup {fn._model[kind]},
                        !.thread[t] = [@ EXCEPT !.pc = "returned",
                                                !.ret = fn._model[kind],
                                                !.outcome = "ok"]]
                ELSE LoadFailed(fn, t, outcome)
    /\ UNCHANGED <<graph_node, graph_edge, queueVars, dbVars, agent, call,
                   watchVars, chatVars>>

LoadNext(threads) ==
    \E t \in threads :
        \/ \E kind \in LoadKinds : load_enter(t, kind)
        \/ \E outcome \in {"ok", "ImportError", "Exception"} :
               load_create(t, outcome)
        \/ \E outcome \in {"ok", "Exception"} : load_finish(t, outcome)

InitLoad == InitAll(<<>>, {}, {}, LoadCall)

\* the calls of one thread, one after the other
SpecLoadSeq == InitLoad /\ [][LoadNext({"worker"})]_vars
\* the preload thread and a tool call's thread, no lock between them
SpecLoad    == InitLoad /\ [][LoadNext(LoadThreads)]_vars

\* C39: for the text and the vision model, a load that fails with a
\* transient error is not cached, so a later call tries again, and once a
\* load has succeeded every later call returns that instance
LoadFailureRetried ==
    [][\A t \in LoadThreads :
          LET f == fn.thread[t]
              g == fn'.thread[t]
          IN /\ (/\ f.pc \in {"try", "created"} /\ g.pc = "returned"
                 /\ g.outcome = "Exception")
                    => ~fn'._model_loaded[g.kind]
             /\ (/\ f.pc \in {"idle", "returned"} /\ g.calls = f.calls + 1
                 /\ fn.loads_ok[g.kind] # {})
                    => /\ g.pc = "returned"
                       /\ g.ret \in fn.loads_ok[g.kind]
                       /\ fn'.constructed = fn.constructed]_vars

\* C40: with the preload thread racing a tool call's thread, no model is
\* loaded twice and all callers of a model hold the same instance
ModelConstructedOnce ==
    /\ fn.name = "_load_model" =>
          \A kind \in LoadKinds : Cardinality(fn.loads_ok[kind]) <= 1
    /\ fn.name = "_load_model" =>
          \A t, u \in LoadThreads :
              (/\ fn.thread[t].pc = "returned" /\ fn.thread[u].pc = "returned"
               /\ fn.thread[t].kind = fn.thread[u].kind
               /\ fn.thread[t].ret # NULL /\ fn.thread[u].ret # NULL)
                  => fn.thread[t].ret = fn.thread[u].ret

====
